---------------------------- MODULE Spec2Model ----------------------------
(***************************************************************************)
(* A model of the configuration builders and of the build-health scoring   *)
(* of the frontend-config library.                                         *)
(*                                                                         *)
(* JavaScript objects are functions from their own keys (strings) to       *)
(* values; a key that is absent from the object is absent from the DOMAIN. *)
(* Numbers are exact: the scoring code only multiplies sub-scores that are *)
(* multiples of 5 by the weights 0.25, 0.25, 0.2, 0.15, 0.15, and for      *)
(* every such tuple the IEEE-754 result of the weighted sum rounds to the  *)
(* same integer as the exact sum, so Math.round is computed exactly.       *)
(* Ratios and percentages are compared by cross-multiplication.            *)
(***************************************************************************)
EXTENDS Integers, Sequences, FiniteSets, TLC

VARIABLES
    pc,             \* "ready" before the call, "done" after it
    budgets,        \* BuildHealthScoring.budgets, set by the constructor
    metrics,        \* the BuildPerformanceMetrics argument of the call
    historicalData, \* the historicalData argument of detectRegressions
    healthScore,    \* the BuildHealthScore returned by calculateHealthScore
    regressions,    \* the array returned by detectRegressions
    options,        \* the options argument of a config builder
    config,         \* the configuration a config builder returned
    semanticGroupsCache, \* the keys of the module-level Map of buildStylelintConfig.ts
    context,        \* the CIContext argument of runCIPerformanceMonitoring
    canDeploy,      \* the local canDeploy of runCIPerformanceMonitoring
    result,         \* the object runCIPerformanceMonitoring resolved with
    historyFile,    \* ci-performance-reports/historical-data.json
    moduleTables,   \* the module-level rule tables coreRules and baseRules
    returned        \* the calls of the config builders made so far, with their results

vars == <<pc, budgets, metrics, historicalData, healthScore, regressions, options, config,
          semanticGroupsCache, context, canDeploy, result, historyFile, moduleTables, returned>>

\* the variables of a sequence of config builder calls
callVars == <<moduleTables, returned>>

\* the variables of a runCIPerformanceMonitoring call, and the history file
ciVars == <<context, canDeploy, result, historyFile>>

(***************************************************************************)
(* JavaScript objects                                                      *)
(***************************************************************************)
EmptyObject == [k \in {} |-> "undefined"]

Has(o, k) == k \in DOMAIN o

\* { ...a, ...b }: the keys of both, b's value where both have the key
Spread(a, b) == [k \in (DOMAIN a) \cup (DOMAIN b) |-> IF k \in DOMAIN b THEN b[k] ELSE a[k]]

\* the object without key k (rest destructuring: const { k, ...rest } = o)
Without(o, k) == [x \in (DOMAIN o) \ {k} |-> o[x]]

\* a value the health and regression specifications do not use
Unused == "unused"

\* the moduleTables variable while no config builder module is loaded
NoTables == [k \in {} |-> "undefined"]

\* the context variable while no runCIPerformanceMonitoring call was made
NoContext == [buildId |-> 0]

\* historical-data.json does not exist
NoFile == [kind |-> "missing"]

\* the value of a property that is absent or was never assigned
Undefined == "undefined"

\* o.k, undefined when o has no own property k
Get(o, k) == IF Has(o, k) THEN o[k] ELSE Undefined

\* a ?? b
Coalesce(a, b) == IF a # Undefined THEN a ELSE b

\* the subsets of F with at most n elements
RECURSIVE SubsetsUpTo(_, _)
SubsetsUpTo(F, n) ==
    IF n = 0 THEN {{}}
    ELSE LET smaller == SubsetsUpTo(F, n - 1)
         IN  smaller \cup { s \cup {a} : s \in smaller, a \in F }

(***************************************************************************)
(* BuildHealthScoring                                                      *)
(***************************************************************************)

\* budgets.k || d for a numeric budget: the default when k is absent or 0
OrDefault(b, k, d) == IF Has(b, k) /\ b[k] # 0 THEN b[k] ELSE d

\* new BuildHealthScoring(budgets): the defaults first, then ...budgets
constructor(b) ==
    Spread([bundleSize       |-> OrDefault(b, "bundleSize", 1024 * 1024),
            gzippedSize      |-> OrDefault(b, "gzippedSize", 300 * 1024),
            buildTime        |-> OrDefault(b, "buildTime", 30000),
            memoryUsage      |-> OrDefault(b, "memoryUsage", 1024),
            moduleCount      |-> OrDefault(b, "moduleCount", 1000),
            assetCount       |-> OrDefault(b, "assetCount", 100),
            chunkCount       |-> OrDefault(b, "chunkCount", 20),
            performanceScore |-> OrDefault(b, "performanceScore", 80)],
           b)

\* x / budget <= n / d, for a budget that is not 0
RatioLE(x, budget, n, d) ==
    IF budget > 0 THEN d * x <= n * budget ELSE d * x >= n * budget

\* the ladder shared by the build-time and bundle-size scores
SizeLadder(x, budget) ==
    IF RatioLE(x, budget, 1, 2) THEN 100
    ELSE IF RatioLE(x, budget, 3, 4) THEN 90
    ELSE IF RatioLE(x, budget, 1, 1) THEN 75
    ELSE IF RatioLE(x, budget, 3, 2) THEN 60
    ELSE IF RatioLE(x, budget, 2, 1) THEN 45
    ELSE 30

calculateBuildTimeScore(b, buildTime) ==
    IF b.buildTime = 0 THEN 100 ELSE SizeLadder(buildTime, b.buildTime)

calculateBundleSizeScore(b, m) ==
    IF ~Has(m, "bundleAnalysis") THEN 100
    ELSE IF b.bundleSize = 0 THEN 100
    ELSE SizeLadder(m.bundleAnalysis.totalSize, b.bundleSize)

\* the points the forEach over performanceHints deducts
RECURSIVE HintDeduction(_)
HintDeduction(hints) ==
    IF hints = <<>> THEN 0
    ELSE (IF Head(hints) = "error" THEN 20
          ELSE IF Head(hints) = "warning" THEN 10
          ELSE 0) + HintDeduction(Tail(hints))

Min(a, b) == IF a <= b THEN a ELSE b
Max(a, b) == IF a >= b THEN a ELSE b

\* the performance score without the final Math.max(0, score)
calculatePerformanceScoreUnclamped(b, m) ==
    100 - (IF Has(m, "performanceHints") THEN HintDeduction(m.performanceHints) ELSE 0)
        - (IF m.moduleCount > b.moduleCount
           THEN Min(20, ((m.moduleCount - b.moduleCount) \div 100) * 5) ELSE 0)

calculatePerformanceScore(b, m) ==
    LET afterHints == 100 - (IF Has(m, "performanceHints")
                             THEN HintDeduction(m.performanceHints) ELSE 0)
        afterModules ==
            IF m.moduleCount > b.moduleCount
            THEN afterHints - Min(20, ((m.moduleCount - b.moduleCount) \div 100) * 5)
            ELSE afterHints
    IN  Max(0, afterModules)

calculateCacheScore(m) ==
    IF m.totalBuildTime < 10000 THEN 90
    ELSE IF m.totalBuildTime < 20000 THEN 80
    ELSE IF m.totalBuildTime < 30000 THEN 70
    ELSE 60

calculateMemoryScore(b, m) ==
    IF ~Has(m, "peakMemoryUsage") \/ m.peakMemoryUsage = 0 THEN 100
    ELSE IF b.memoryUsage = 0 THEN 100
    ELSE IF RatioLE(m.peakMemoryUsage, b.memoryUsage, 1, 2) THEN 100
    ELSE IF RatioLE(m.peakMemoryUsage, b.memoryUsage, 3, 4) THEN 85
    ELSE IF RatioLE(m.peakMemoryUsage, b.memoryUsage, 1, 1) THEN 70
    ELSE IF RatioLE(m.peakMemoryUsage, b.memoryUsage, 3, 2) THEN 50
    ELSE 30

\* the grade ladder with the E bucket left out (D/F split at 60)
generateGradeAndStatusNoE(score) ==
    IF score >= 90 THEN [grade |-> "A", status |-> "excellent"]
    ELSE IF score >= 80 THEN [grade |-> "B", status |-> "good"]
    ELSE IF score >= 70 THEN [grade |-> "C", status |-> "fair"]
    ELSE IF score >= 60 THEN [grade |-> "D", status |-> "poor"]
    ELSE [grade |-> "F", status |-> "critical"]

generateGradeAndStatus(score) ==
    IF score >= 90 THEN [grade |-> "A", status |-> "excellent"]
    ELSE IF score >= 80 THEN [grade |-> "B", status |-> "good"]
    ELSE IF score >= 70 THEN [grade |-> "C", status |-> "fair"]
    ELSE IF score >= 60 THEN [grade |-> "D", status |-> "poor"]
    ELSE IF score >= 50 THEN [grade |-> "E", status |-> "poor"]
    ELSE [grade |-> "F", status |-> "critical"]

generateRecommendations(bt, bs, pf, ca, me) ==
    (IF bt < 70 THEN <<"Consider optimizing build configuration or reducing dependencies to improve build time">> ELSE <<>>)
    \o (IF bs < 70 THEN <<"Implement code splitting and tree shaking to reduce bundle size">> ELSE <<>>)
    \o (IF pf < 70 THEN <<"Address performance hints and optimize bundle composition">> ELSE <<>>)
    \o (IF ca < 70 THEN <<"Optimize build cache configuration and avoid unnecessary rebuilds">> ELSE <<>>)
    \o (IF me < 70 THEN <<"Consider increasing memory limits or optimizing memory-intensive operations">> ELSE <<>>)

\* Math.round(num / den) for den > 0: the nearest integer, halves upwards
MathRound(num, den) == (2 * num + den) \div (2 * den)

\* the weighted sum with the cache and memory weights at 0.10 and 0.20
WeightedSumSkewed(bt, bs, pf, ca, me) == bt * 25 + bs * 25 + pf * 20 + ca * 10 + me * 20

\* the weighted sum of the five sub-scores, times 100
WeightedSum(bt, bs, pf, ca, me) == bt * 25 + bs * 25 + pf * 20 + ca * 15 + me * 15

calculateHealthScore(b, m) ==
    LET buildTimeScore   == calculateBuildTimeScore(b, m.totalBuildTime)
        bundleSizeScore  == calculateBundleSizeScore(b, m)
        performanceScore == calculatePerformanceScore(b, m)
        cacheScore       == calculateCacheScore(m)
        memoryScore      == calculateMemoryScore(b, m)
        overallScore     == MathRound(WeightedSum(buildTimeScore, bundleSizeScore,
                                                  performanceScore, cacheScore, memoryScore), 100)
        gs               == generateGradeAndStatus(overallScore)
    IN  [overallScore     |-> overallScore,
         buildTimeScore   |-> buildTimeScore,
         bundleSizeScore  |-> bundleSizeScore,
         performanceScore |-> performanceScore,
         cacheScore       |-> cacheScore,
         memoryScore      |-> memoryScore,
         grade            |-> gs.grade,
         status           |-> gs.status,
         recommendations  |-> generateRecommendations(buildTimeScore, bundleSizeScore,
                                                      performanceScore, cacheScore, memoryScore)]

(***************************************************************************)
(* The inputs of calculateHealthScore                                      *)
(***************************************************************************)
MaxErrorHints == 6

Repeat(x, n) == [i \in 1..n |-> x]

HintLists ==
    { Repeat("error", e) \o w \o i :
        e \in 0..MaxErrorHints, w \in {<<>>, <<"warning">>}, i \in {<<>>, <<"info">>} }

\* the budgets argument of the constructor: nothing, one budget, or all four
BudgetInputs ==
    { EmptyObject,
      [buildTime |-> 0], [bundleSize |-> 0], [memoryUsage |-> 0], [moduleCount |-> 0],
      [buildTime |-> 20000, bundleSize |-> 2 * 1024 * 1024, memoryUsage |-> 512, moduleCount |-> 500] }

BuildTimes == {9999, 15000, 22500, 30000, 45000, 60001}
BundleSizes == {0, 512 * 1024, 768 * 1024, 1536 * 1024, 2048 * 1024 + 1}
MemoryUsages == {0, 512, 768, 1024, 1536, 1537}
ModuleCounts == {1000, 1100, 5000}

WithBundle(m, present, size) ==
    IF present THEN Spread(m, [bundleAnalysis |-> [totalSize |-> size]]) ELSE m

WithMemory(m, present, mem) ==
    IF present THEN Spread(m, [peakMemoryUsage |-> mem]) ELSE m

ScoreMetrics ==
    { WithMemory(WithBundle([totalBuildTime |-> t, moduleCount |-> n, performanceHints |-> h],
                            hasB, s), hasM, u) :
        t \in BuildTimes, n \in ModuleCounts, h \in HintLists,
        hasB \in BOOLEAN, s \in BundleSizes, hasM \in BOOLEAN, u \in MemoryUsages }

NoScore == [overallScore |-> -1]

InitHealth ==
    /\ pc = "ready"
    /\ budgets \in { constructor(b) : b \in BudgetInputs }
    /\ metrics \in ScoreMetrics
    /\ historicalData = <<>>
    /\ healthScore = NoScore
    /\ regressions = <<>>
    /\ options = Unused
    /\ config = Unused
    /\ semanticGroupsCache = {}
    /\ context = NoContext
    /\ canDeploy = FALSE
    /\ result = Unused
    /\ historyFile = NoFile
    /\ moduleTables = NoTables
    /\ returned = <<>>

CalculateHealthScore ==
    /\ pc = "ready"
    /\ pc' = "done"
    /\ healthScore' = calculateHealthScore(budgets, metrics)
    /\ UNCHANGED <<budgets, metrics, historicalData, regressions, options, config, semanticGroupsCache>>
    /\ UNCHANGED ciVars
    /\ UNCHANGED callVars

NextHealth == CalculateHealthScore

SpecHealth == InitHealth /\ [][NextHealth]_vars

(***************************************************************************)
(* BuildHealthScoring.detectRegressions                                    *)
(*                                                                         *)
(* A baseline is the mean sum / count, kept as the pair [num, den]; a      *)
(* percentage change ((c - b) / b) * 100 is the pair                       *)
(* [num |-> 100 * (c * count - sum), den |-> sum].  With den = 0 the       *)
(* JavaScript value is Infinity (num > 0) or NaN (num = 0), and every      *)
(* comparison with NaN is false.                                           *)
(***************************************************************************)
RecentWindow == 10

\* historicalData.slice(-RecentWindow)
SliceLast(h) ==
    IF Len(h) <= RecentWindow THEN h ELSE SubSeq(h, Len(h) - RecentWindow + 1, Len(h))

\* d.metrics.bundleAnalysis?.totalSize || 0
BundleSizeOrZero(m) == IF Has(m, "bundleAnalysis") THEN m.bundleAnalysis.totalSize ELSE 0

\* d.metrics.peakMemoryUsage || 0
MemoryOrZero(m) == IF Has(m, "peakMemoryUsage") THEN m.peakMemoryUsage ELSE 0

RECURSIVE SumOver(_, _)
SumOver(h, field) ==
    IF h = <<>> THEN 0
    ELSE (CASE field = "totalBuildTime" -> Head(h).metrics.totalBuildTime
            [] field = "bundleSize" -> BundleSizeOrZero(Head(h).metrics)
            [] field = "memory" -> MemoryOrZero(Head(h).metrics))
         + SumOver(Tail(h), field)

\* calculateBaseline: {} for no data, else the three means
calculateBaseline(h) ==
    IF Len(h) = 0 THEN EmptyObject
    ELSE [totalBuildTime  |-> [num |-> SumOver(h, "totalBuildTime"), den |-> Len(h)],
          bundleAnalysis  |-> [totalSize |-> [num |-> SumOver(h, "bundleSize"), den |-> Len(h)]],
          peakMemoryUsage |-> [num |-> SumOver(h, "memory"), den |-> Len(h)]]

\* p > n / d for a percentage p = [num, den] with den >= 0 and d > 0
PercentGT(p, n, d) ==
    IF p.den > 0 THEN p.num * d > n * p.den
    ELSE p.num > 0

\* checkRegression whose isBlocking flag is set for every severity above minor
checkRegressionBlockingMajor(currentValue, baselineValue, type, thresholdPercent) ==
    LET percentageChange ==
            [num |-> 100 * (currentValue * baselineValue.den - baselineValue.num),
             den |-> baselineValue.num]
        severity ==
            IF PercentGT(percentageChange, thresholdPercent * 2, 1) THEN "critical"
            ELSE IF PercentGT(percentageChange, thresholdPercent * 3, 2) THEN "major"
            ELSE "minor"
    IN  IF PercentGT(percentageChange, thresholdPercent, 1)
        THEN << [type             |-> type,
                 currentValue     |-> currentValue,
                 previousValue    |-> baselineValue,
                 percentageChange |-> percentageChange,
                 severity         |-> severity,
                 isBlocking       |-> severity # "minor"] >>
        ELSE <<>>

\* checkRegression: the one-element list of the regression, or the empty
\* list for null
checkRegression(currentValue, baselineValue, type, thresholdPercent) ==
    LET percentageChange ==
            [num |-> 100 * (currentValue * baselineValue.den - baselineValue.num),
             den |-> baselineValue.num]
        severity ==
            IF PercentGT(percentageChange, thresholdPercent * 2, 1) THEN "critical"
            ELSE IF PercentGT(percentageChange, thresholdPercent * 3, 2) THEN "major"
            ELSE "minor"
    IN  IF PercentGT(percentageChange, thresholdPercent, 1)
        THEN << [type             |-> type,
                 currentValue     |-> currentValue,
                 previousValue    |-> baselineValue,
                 percentageChange |-> percentageChange,
                 severity         |-> severity,
                 isBlocking       |-> (severity = "critical")] >>
        ELSE <<>>

detectRegressions(currentMetrics, h) ==
    IF Len(h) = 0 THEN <<>>
    ELSE
        LET baseline == calculateBaseline(SliceLast(h))
            buildTimeRegression ==
                IF baseline.totalBuildTime.num # 0
                THEN checkRegression(currentMetrics.totalBuildTime,
                                     baseline.totalBuildTime, "build-time", 15)
                ELSE <<>>
            sizeRegression ==
                IF Has(currentMetrics, "bundleAnalysis") /\ Has(baseline, "bundleAnalysis")
                THEN checkRegression(currentMetrics.bundleAnalysis.totalSize,
                                     baseline.bundleAnalysis.totalSize, "bundle-size", 10)
                ELSE <<>>
            memoryRegression ==
                IF baseline.peakMemoryUsage.num # 0
                THEN IF Has(currentMetrics, "peakMemoryUsage")
                     THEN checkRegression(currentMetrics.peakMemoryUsage,
                                          baseline.peakMemoryUsage, "memory", 20)
                     ELSE <<>>  \* undefined - baseline is NaN: no regression
                ELSE <<>>
        IN  buildTimeRegression \o sizeRegression \o memoryRegression

(***************************************************************************)
(* The inputs of detectRegressions                                         *)
(***************************************************************************)
MaxOlder == 3
MaxNewer == 10

\* the metrics of a historical build: a build time, and optionally a bundle
\* analysis and a peak memory usage
HistoricalMetrics ==
    { WithMemory(WithBundle([totalBuildTime |-> t], hasB, 200), hasM, 200) :
        t \in {0, 200}, hasB \in BOOLEAN, hasM \in BOOLEAN }

\* histories: i older builds of one kind followed by j newer builds of another
Histories ==
    { Repeat([metrics |-> a], i) \o Repeat([metrics |-> b], j) :
        a \in HistoricalMetrics, b \in HistoricalMetrics,
        i \in 0..MaxOlder, j \in 0..MaxNewer }

CurrentValues == {0, 100, 200, 220, 221, 230, 231, 240, 241, 245, 246, 260, 261, 280, 281}

CurrentMetrics ==
    { WithMemory(WithBundle([totalBuildTime |-> v], hasB, v), hasM, v) :
        v \in CurrentValues, hasB \in BOOLEAN, hasM \in BOOLEAN }

InitRegression ==
    /\ pc = "ready"
    /\ budgets = constructor(EmptyObject)
    /\ metrics \in CurrentMetrics
    /\ historicalData \in Histories
    /\ healthScore = NoScore
    /\ regressions = <<>>
    /\ options = Unused
    /\ config = Unused
    /\ semanticGroupsCache = {}
    /\ context = NoContext
    /\ canDeploy = FALSE
    /\ result = Unused
    /\ historyFile = NoFile
    /\ moduleTables = NoTables
    /\ returned = <<>>

DetectRegressions ==
    /\ pc = "ready"
    /\ pc' = "done"
    /\ regressions' = detectRegressions(metrics, historicalData)
    /\ UNCHANGED <<budgets, metrics, historicalData, healthScore, options, config, semanticGroupsCache>>
    /\ UNCHANGED ciVars
    /\ UNCHANGED callVars

NextRegression == DetectRegressions

SpecRegression == InitRegression /\ [][NextRegression]_vars

(***************************************************************************)
(* buildJestConfig                                                         *)
(*                                                                         *)
(* The values of configuration fields are never inspected by the builders, *)
(* only copied: each is the text of its literal.                           *)
(***************************************************************************)
jestBasePreset ==
    [testEnvironment        |-> "'node'",
     roots                  |-> "['<rootDir>/src']",
     testMatch              |-> "['**/__tests__/**/*.{js,jsx,ts,tsx}', '**/*.{spec,test}.{js,jsx,ts,tsx}']",
     moduleFileExtensions   |-> "['js', 'jsx', 'ts', 'tsx', 'json', 'node']",
     collectCoverageFrom    |-> "['src/**/*.{js,jsx,ts,tsx}', '!src/**/*.d.ts', '!src/**/*.stories.{js,jsx,ts,tsx}', '!src/**/__tests__/**']",
     transform              |-> "{ ts|tsx: @swc/jest typescript, js|jsx: @swc/jest ecmascript }",
     cacheDirectory         |-> "'<rootDir>/.jest-cache'",
     cache                  |-> "true",
     maxWorkers             |-> "'50%'",
     testTimeout            |-> "3000",
     detectOpenHandles      |-> "true",
     forceExit              |-> "true",
     clearMocks             |-> "true",
     resetMocks             |-> "true",
     restoreMocks           |-> "true"]

jestTypescriptPreset ==
    [testEnvironment        |-> "'node'",
     roots                  |-> "['<rootDir>/src']",
     testMatch              |-> "['**/__tests__/**/*.{ts,tsx}', '**/*.{spec,test}.{ts,tsx}']",
     moduleFileExtensions   |-> "['ts', 'tsx', 'js', 'jsx', 'json', 'node']",
     transform              |-> "{ ts|tsx: @swc/jest typescript, js|jsx: @swc/jest ecmascript (es2022) }",
     collectCoverageFrom    |-> "['src/**/*.{ts,tsx}', '!src/**/*.d.ts', '!src/**/__tests__/**']",
     cacheDirectory         |-> "'<rootDir>/.jest-cache'",
     cache                  |-> "true",
     maxWorkers             |-> "'50%'",
     testTimeout            |-> "3000",
     detectOpenHandles      |-> "true",
     forceExit              |-> "true",
     clearMocks             |-> "true",
     resetMocks             |-> "true",
     restoreMocks           |-> "true"]

jestReactPreset ==
    [testEnvironment        |-> "'jsdom'",
     testEnvironmentOptions |-> "{ url, pretendToBeVisual, resources }",
     roots                  |-> "['<rootDir>/src']",
     testMatch              |-> "['**/__tests__/**/*.{js,jsx,ts,tsx}', '**/*.{spec,test}.{js,jsx,ts,tsx}']",
     setupFilesAfterEnv     |-> "['<rootDir>/node_modules/@testing-library/jest-dom']",
     moduleFileExtensions   |-> "['js', 'jsx', 'ts', 'tsx', 'json', 'node']",
     transform              |-> "{ ts|tsx: @swc/jest typescript react, js|jsx: @swc/jest ecmascript react }",
     moduleNameMapper       |-> "{ styles: identity-obj-proxy, assets: file mock }",
     collectCoverageFrom    |-> "['src/**/*.{js,jsx,ts,tsx}', '!src/**/*.d.ts', '!src/**/*.stories.{js,jsx,ts,tsx}', '!src/**/__tests__/**']",
     cacheDirectory         |-> "'<rootDir>/.jest-cache'",
     cache                  |-> "true",
     maxWorkers             |-> "'50%'",
     testTimeout            |-> "3000",
     detectOpenHandles      |-> "true",
     forceExit              |-> "true",
     clearMocks             |-> "true",
     resetMocks             |-> "true",
     restoreMocks           |-> "true",
     maxConcurrency         |-> "5"]

\* the switch on options.preset
jestPresetConfig(o) ==
    CASE Get(o, "preset") = "react" -> jestReactPreset
      [] Get(o, "preset") = "typescript" -> jestTypescriptPreset
      [] OTHER -> jestBasePreset

\* the hard-coded fallbacks of buildJestConfig
jestGlobalDefaults ==
    [testPathIgnorePatterns |-> "['/node_modules/', '/dist/', '/build/']",
     coverageReporters      |-> "['json', 'lcov', 'text', 'clover']",
     rootDir                |-> "process.cwd()",
     collectCoverage        |-> "false",
     coverageDirectory      |-> "'coverage'",
     testTimeout            |-> "5000",
     verbose                |-> "false",
     bail                   |-> "false",
     notify                 |-> "false",
     notifyMode             |-> "'always'",
     maxWorkers             |-> "'50%'"]

\* options.f ?? presetConfig.f ?? default, for the fields set one by one
jestExplicitFields(o, presetConfig) ==
    [f \in (DOMAIN jestGlobalDefaults) \cup {"coverageThreshold"} |->
        IF f = "coverageThreshold"
        THEN Coalesce(Get(o, f), Get(presetConfig, f))
        ELSE Coalesce(Coalesce(Get(o, f), Get(presetConfig, f)), jestGlobalDefaults[f])]

\* buildJestConfig with the two spreads in the opposite order
buildJestConfigPresetLast(o) ==
    LET presetConfig == jestPresetConfig(o)
        cfg == Spread(Spread(o, presetConfig), jestExplicitFields(o, presetConfig))
    IN  Without(cfg, "preset")

buildJestConfig(o) ==
    LET presetConfig == jestPresetConfig(o)
        cfg == Spread(Spread(presetConfig, o), jestExplicitFields(o, presetConfig))
    IN  Without(cfg, "preset")

(***************************************************************************)
(* The inputs of buildJestConfig                                           *)
(***************************************************************************)
MaxSuppliedFields == 2

PresetChoices == {Undefined, "base", "react", "typescript", "vue"}

\* the option fields a caller may set: every field a preset or the builder
\* sets, and one that neither does
JestFields ==
    (DOMAIN jestBasePreset) \cup (DOMAIN jestTypescriptPreset) \cup (DOMAIN jestReactPreset)
        \cup (DOMAIN jestGlobalDefaults) \cup {"coverageThreshold", "displayName"}

UserValue == "<caller's value>"

WithPreset(o, p) == IF p = Undefined THEN o ELSE Spread(o, [preset |-> p])

JestOptions ==
    { WithPreset([f \in S |-> UserValue], p) :
        S \in SubsetsUpTo(JestFields, MaxSuppliedFields), p \in PresetChoices }

InitJest ==
    /\ pc = "ready"
    /\ budgets = Unused
    /\ metrics = Unused
    /\ historicalData = <<>>
    /\ healthScore = NoScore
    /\ regressions = <<>>
    /\ options \in JestOptions
    /\ config = Unused
    /\ semanticGroupsCache = {}
    /\ context = NoContext
    /\ canDeploy = FALSE
    /\ result = Unused
    /\ historyFile = NoFile
    /\ moduleTables = NoTables
    /\ returned = <<>>

BuildJestConfig ==
    /\ pc = "ready"
    /\ pc' = "done"
    /\ config' = buildJestConfig(options)
    /\ UNCHANGED <<budgets, metrics, historicalData, healthScore, regressions, options,
                   semanticGroupsCache>>
    /\ UNCHANGED ciVars
    /\ UNCHANGED callVars

NextJest == BuildJestConfig

SpecJest == InitJest /\ [][NextJest]_vars

(***************************************************************************)
(* buildVitestConfig                                                       *)
(***************************************************************************)
vitestBasePreset ==
    [test |-> [globals     |-> "true",
               environment |-> "'node'",
               include     |-> "['**/__tests__/**/*.{js,jsx,ts,tsx}', '**/*.{spec,test}.{js,jsx,ts,tsx}']",
               exclude     |-> "['**/node_modules/**', '**/dist/**', '**/build/**']"]]

vitestReactPreset ==
    [test |-> [globals     |-> "true",
               environment |-> "'jsdom'",
               setupFiles  |-> "['<rootDir>/node_modules/@testing-library/jest-dom']",
               include     |-> "['**/__tests__/**/*.{js,jsx,ts,tsx}', '**/*.{spec,test}.{js,jsx,ts,tsx}']",
               exclude     |-> "['**/node_modules/**', '**/dist/**', '**/build/**']"]]

vitestTypescriptPreset ==
    [test |-> [globals     |-> "true",
               environment |-> "'node'",
               include     |-> "['**/__tests__/**/*.{ts,tsx}', '**/*.{spec,test}.{ts,tsx}']",
               exclude     |-> "['**/node_modules/**', '**/dist/**', '**/build/**']"]]

vitestPresetConfig(o) ==
    CASE Get(o, "preset") = "react" -> vitestReactPreset
      [] Get(o, "preset") = "typescript" -> vitestTypescriptPreset
      [] OTHER -> vitestBasePreset

vitestGlobalDefaults ==
    [globals     |-> "true",
     environment |-> "'node'",
     include     |-> "['**/*.{test,spec}.{js,jsx,ts,tsx}']",
     exclude     |-> "['**/node_modules/**', '**/dist/**']"]

\* o.test, or an object without properties when o.test is undefined
\* (spreading undefined adds nothing, undefined?.f is undefined)
TestOf(o) == IF Has(o, "test") THEN o.test ELSE EmptyObject

buildVitestConfig(o) ==
    LET presetConfig == vitestPresetConfig(o)
        test ==
            Spread(Spread(TestOf(presetConfig), TestOf(o)),
                   [f \in DOMAIN vitestGlobalDefaults |->
                        Coalesce(Coalesce(Get(TestOf(o), f), Get(TestOf(presetConfig), f)),
                                 vitestGlobalDefaults[f])])
        cfg == Spread(Spread(presetConfig, o), [test |-> test])
        finalOptions == Without(o, "preset")
    IN  Spread(cfg, finalOptions)

(***************************************************************************)
(* The inputs of buildVitestConfig                                         *)
(***************************************************************************)
VitestTestFields == {"globals", "environment", "setupFiles", "include", "exclude", "coverage"}

WithTest(o, present, t) == IF present THEN Spread(o, [test |-> t]) ELSE o

VitestOptions ==
    { WithTest(WithPreset(EmptyObject, p), hasTest, [f \in S |-> UserValue]) :
        p \in PresetChoices, hasTest \in BOOLEAN, S \in SUBSET VitestTestFields }

InitVitest ==
    /\ pc = "ready"
    /\ budgets = Unused
    /\ metrics = Unused
    /\ historicalData = <<>>
    /\ healthScore = NoScore
    /\ regressions = <<>>
    /\ options \in VitestOptions
    /\ config = Unused
    /\ semanticGroupsCache = {}
    /\ context = NoContext
    /\ canDeploy = FALSE
    /\ result = Unused
    /\ historyFile = NoFile
    /\ moduleTables = NoTables
    /\ returned = <<>>

BuildVitestConfig ==
    /\ pc = "ready"
    /\ pc' = "done"
    /\ config' = buildVitestConfig(options)
    /\ UNCHANGED <<budgets, metrics, historicalData, healthScore, regressions, options,
                   semanticGroupsCache>>
    /\ UNCHANGED ciVars
    /\ UNCHANGED callVars

NextVitest == BuildVitestConfig

SpecVitest == InitVitest /\ [][NextVitest]_vars

(***************************************************************************)
(* buildEslintConfig                                                       *)
(*                                                                         *)
(* A rule value is <<severity>> for a bare severity and                    *)
(* <<severity, options>> for an array, options being the text of the       *)
(* remaining elements; the max-len rule the builder adds also carries the  *)
(* number maxLineLength.                                                   *)
(***************************************************************************)
\* rulePresets.strict
rulePresets_strict ==
       "@typescript-eslint/no-explicit-any" :> <<"error">>
    @@ "@typescript-eslint/strict-boolean-expressions" :> <<"error">>
    @@ "@typescript-eslint/prefer-nullish-coalescing" :> <<"error">>
    @@ "@typescript-eslint/prefer-optional-chain" :> <<"error">>
    @@ "@typescript-eslint/no-unnecessary-type-assertion" :> <<"error">>
    @@ "no-console" :> <<"error">>
    @@ "no-debugger" :> <<"error">>
    @@ "no-alert" :> <<"error">>
    @@ "react/jsx-props-no-spreading" :> <<"error">>

\* rulePresets.standard
rulePresets_standard ==
       "@typescript-eslint/no-explicit-any" :> <<"warn">>
    @@ "@typescript-eslint/prefer-nullish-coalescing" :> <<"error">>
    @@ "@typescript-eslint/prefer-optional-chain" :> <<"error">>
    @@ "@typescript-eslint/no-unnecessary-type-assertion" :> <<"warn">>
    @@ "no-console" :> <<"warn">>
    @@ "no-debugger" :> <<"error">>
    @@ "no-alert" :> <<"error">>
    @@ "react/jsx-props-no-spreading" :> <<"warn">>

\* rulePresets.relaxed
rulePresets_relaxed ==
       "@typescript-eslint/no-explicit-any" :> <<"off">>
    @@ "@typescript-eslint/strict-boolean-expressions" :> <<"off">>
    @@ "@typescript-eslint/prefer-nullish-coalescing" :> <<"off">>
    @@ "@typescript-eslint/prefer-optional-chain" :> <<"off">>
    @@ "no-console" :> <<"off">>
    @@ "no-debugger" :> <<"warn">>
    @@ "no-alert" :> <<"warn">>
    @@ "react/jsx-props-no-spreading" :> <<"off">>

\* rulePresets.minimal
rulePresets_minimal ==
       "@typescript-eslint/explicit-function-return-type" :> <<"off">>
    @@ "@typescript-eslint/explicit-module-boundary-types" :> <<"off">>
    @@ "@typescript-eslint/no-unused-vars" :> <<"off">>
    @@ "@typescript-eslint/strict-boolean-expressions" :> <<"off">>
    @@ "@typescript-eslint/prefer-nullish-coalescing" :> <<"off">>
    @@ "@typescript-eslint/prefer-optional-chain" :> <<"off">>
    @@ "no-console" :> <<"off">>
    @@ "no-debugger" :> <<"off">>
    @@ "max-len" :> <<"off">>

\* coreRules: the rule set every configuration starts from
coreRules ==
       "import/order" :> <<"error", "{ groups: [['builtin', 'external'], 'internal', ['parent', 'sibling'], 'index'], pathGroups: [{ pattern: '@react/**', group: 'external', position: 'before' }, { pattern: '@src/**', group: 'internal', position: 'before' }], newlines-between: 'always', alphabetize: { order: 'asc', caseInsensitive: true } }">>
    @@ "@typescript-eslint/adjacent-overload-signatures" :> <<"error">>
    @@ "@typescript-eslint/array-type" :> <<"error", "{ default: 'generic' }">>
    @@ "@typescript-eslint/ban-ts-comment" :> <<"warn">>
    @@ "@typescript-eslint/consistent-generic-constructors" :> <<"error">>
    @@ "@typescript-eslint/consistent-indexed-object-style" :> <<"error", "'record'">>
    @@ "@typescript-eslint/consistent-type-assertions" :> <<"error">>
    @@ "@typescript-eslint/consistent-type-definitions" :> <<"error", "'interface'">>
    @@ "@typescript-eslint/explicit-function-return-type" :> <<"error", "{ allowExpressions: true }">>
    @@ "@typescript-eslint/explicit-module-boundary-types" :> <<"error">>
    @@ "@typescript-eslint/member-ordering" :> <<"error">>
    @@ "@typescript-eslint/method-signature-style" :> <<"error">>
    @@ "@typescript-eslint/no-array-constructor" :> <<"error">>
    @@ "@typescript-eslint/no-duplicate-type-constituents" :> <<"error">>
    @@ "@typescript-eslint/no-empty-object-type" :> <<"error">>
    @@ "@typescript-eslint/no-inferrable-types" :> <<"off">>
    @@ "@typescript-eslint/no-misused-new" :> <<"error">>
    @@ "@typescript-eslint/no-namespace" :> <<"error">>
    @@ "@typescript-eslint/no-redundant-type-constituents" :> <<"error">>
    @@ "@typescript-eslint/no-require-imports" :> <<"error">>
    @@ "@typescript-eslint/no-unnecessary-type-arguments" :> <<"error">>
    @@ "@typescript-eslint/no-unused-vars" :> <<"warn", "{ argsIgnorePattern: '^_' }">>
    @@ "@typescript-eslint/no-var-requires" :> <<"error">>
    @@ "@typescript-eslint/prefer-as-const" :> <<"error">>
    @@ "@typescript-eslint/prefer-function-type" :> <<"error">>
    @@ "@typescript-eslint/prefer-namespace-keyword" :> <<"error">>
    @@ "@typescript-eslint/prefer-readonly" :> <<"error">>
    @@ "@typescript-eslint/prefer-readonly-parameter-types" :> <<"off">>
    @@ "@typescript-eslint/prefer-reduce-type-parameter" :> <<"error">>
    @@ "@typescript-eslint/prefer-return-this-type" :> <<"error">>
    @@ "@typescript-eslint/require-await" :> <<"error">>
    @@ "@typescript-eslint/triple-slash-reference" :> <<"error">>
    @@ "@typescript-eslint/unified-signatures" :> <<"error">>
    @@ "react/display-name" :> <<"off">>
    @@ "react/function-component-definition" :> <<"error", "{ namedComponents: ['arrow-function', 'function-declaration'], unnamedComponents: ['arrow-function', 'function-expression'] }">>
    @@ "react/jsx-boolean-value" :> <<"error", "'always'">>
    @@ "react/jsx-curly-brace-presence" :> <<"error", "{ props: 'never', children: 'never' }">>
    @@ "react/jsx-filename-extension" :> <<"error", "{ extensions: ['.tsx', '.jsx'] }">>
    @@ "react/jsx-no-leaked-render" :> <<"error", "{ validStrategies: ['ternary'] }">>
    @@ "react/jsx-no-useless-fragment" :> <<"error", "{ allowExpressions: true }">>
    @@ "react/require-default-props" :> <<"off">>
    @@ "react-hooks/rules-of-hooks" :> <<"error">>
    @@ "react-hooks/exhaustive-deps" :> <<"error">>
    @@ "jsx-a11y/click-events-have-key-events" :> <<"warn">>
    @@ "jsx-a11y/no-static-element-interactions" :> <<"warn">>
    @@ "jsx-a11y/no-autofocus" :> <<"error">>
    @@ "jsx-a11y/alt-text" :> <<"error">>
    @@ "jsx-a11y/aria-props" :> <<"error">>
    @@ "jsx-a11y/aria-proptypes" :> <<"error">>
    @@ "jsx-a11y/aria-unsupported-elements" :> <<"error">>
    @@ "jsx-a11y/role-has-required-aria-props" :> <<"error">>
    @@ "jsx-a11y/role-supports-aria-props" :> <<"error">>
    @@ "no-param-reassign" :> <<"warn", "{ props: false }">>
    @@ "prefer-const" :> <<"error">>
    @@ "prefer-arrow-callback" :> <<"error">>
    @@ "prefer-template" :> <<"error">>
    @@ "object-shorthand" :> <<"error">>
    @@ "prefer-destructuring" :> <<"error", "{ object: true, array: false }">>
    @@ "no-var" :> <<"error">>
    @@ "quotes" :> <<"error", "'single', { avoidEscape: true }">>
    @@ "semi" :> <<"error", "'never'">>
    @@ "comma-dangle" :> <<"error", "'always-multiline'">>
    @@ "comma-spacing" :> <<"error", "{ before: false, after: true }">>
    @@ "space-before-function-paren" :> <<"error", "{ anonymous: 'always', named: 'never', asyncArrow: 'always' }">>
    @@ "space-infix-ops" :> <<"error">>
    @@ "keyword-spacing" :> <<"error">>
    @@ "object-curly-spacing" :> <<"error", "'always'">>
    @@ "array-bracket-spacing" :> <<"error", "'never'">>
    @@ "brace-style" :> <<"error", "'1tbs', { allowSingleLine: true }">>
    @@ "indent" :> <<"error", "4, { SwitchCase: 1 }">>
    @@ "no-else-return" :> <<"error">>
    @@ "no-useless-return" :> <<"error">>
    @@ "no-return-assign" :> <<"error">>
    @@ "no-throw-literal" :> <<"error">>
    @@ "prefer-promise-reject-errors" :> <<"error">>
    @@ "prefer-object-spread" :> <<"error">>
    @@ "prefer-spread" :> <<"error">>
    @@ "no-loop-func" :> <<"error">>
    @@ "no-extend-native" :> <<"error">>
    @@ "no-eval" :> <<"error">>
    @@ "no-implied-eval" :> <<"error">>
    @@ "no-new-func" :> <<"error">>
    @@ "no-script-url" :> <<"error">>

\* i18nextRules
i18nextRules ==
       "i18next/no-literal-string" :> <<"error", "{ markupOnly: true, ignoreAttribute: ['data-testid', 'to', 'role'] }">>

rulePresets ==
       "strict" :> rulePresets_strict
    @@ "standard" :> rulePresets_standard
    @@ "relaxed" :> rulePresets_relaxed
    @@ "minimal" :> rulePresets_minimal

\* a destructuring default: o.k, or d when o has no k
Default(o, k, d) == IF Has(o, k) THEN o[k] ELSE d

mergeRulesWithPreset(baseRules, preset) ==
    IF preset = "" \/ preset = "standard" THEN baseRules
    ELSE Spread(baseRules, IF preset \in DOMAIN rulePresets THEN rulePresets[preset]
                           ELSE EmptyObject)

\* the max-len rule of enablePerformanceRules
maxLenRule(maxLineLength) ==
    "max-len" :> <<"error",
                   "{ code: maxLineLength, ignoreComments: true, ignoreStrings: true, ignoreTemplateLiterals: true }",
                   maxLineLength>>

\* the rules of the main block over the module's rule table as it is at the
\* call: preset merge, then customRules, then the i18next rules, then max-len
\* (Object.assign in this order)
eslintRulesOver(table, o) ==
    LET enableI18next          == Default(o, "enableI18next", TRUE)
        customRules            == Default(o, "customRules", EmptyObject)
        preset                 == Default(o, "preset", "standard")
        maxLineLength          == Default(o, "maxLineLength", 150)
        enablePerformanceRules == Default(o, "enablePerformanceRules", TRUE)
        merged     == mergeRulesWithPreset(table, preset)
        withCustom == Spread(merged, customRules)
        withI18n   == IF enableI18next THEN Spread(withCustom, i18nextRules) ELSE withCustom
    IN  IF enablePerformanceRules THEN Spread(withI18n, maxLenRule(maxLineLength)) ELSE withI18n

\* the rules of the main block, built from coreRules as the module defines it
eslintRules(o) == eslintRulesOver(coreRules, o)

\* the flat config array: global ignores, the main block, then the optional
\* i18next, Storybook and Jest blocks and the JavaScript overrides
buildEslintConfig(o) ==
    LET enableI18next   == Default(o, "enableI18next", TRUE)
        enableStorybook == Default(o, "enableStorybook", TRUE)
        enableJest      == Default(o, "enableJest", TRUE)
        ignorePatterns  == Default(o, "ignorePatterns", <<>>)
        tsconfigPath    == Default(o, "tsconfigPath", "./tsconfig.json")
    IN  << [ignores |-> <<"**/node_modules/**", "**/dist/**", "**/build/**", "**/coverage/**",
                          "**/.fttemplates/**", "**/storybook-static/**", "**/*.min.js">>
                        \o ignorePatterns] ,
           [files   |-> <<"**/*.{ts,tsx,js,jsx}">>,
            project |-> tsconfigPath,
            plugins |-> {"@typescript-eslint", "react", "react-hooks", "import", "jsx-a11y"},
            rules   |-> eslintRules(o)] >>
        \o (IF enableI18next
            THEN << [files |-> <<"**/*.{ts,tsx,js,jsx}">>, plugins |-> {"i18next"}] >>
            ELSE <<>>)
        \o (IF enableStorybook
            THEN << [files |-> <<"**/*.stories.{ts,tsx}">>,
                     rules |-> ("i18next/no-literal-string" :> <<"off">>
                                @@ "max-len" :> <<"off">>
                                @@ "react/jsx-props-no-spreading" :> <<"off">>)] >>
            ELSE <<>>)
        \o (IF enableJest
            THEN << [files |-> <<"**/*.test.{ts,tsx}", "**/__tests__/**/*.{ts,tsx}">>,
                     rules |-> ("i18next/no-literal-string" :> <<"off">>
                                @@ "max-len" :> <<"off">>
                                @@ "@typescript-eslint/no-var-requires" :> <<"off">>)] >>
            ELSE <<>>)
        \o << [files |-> <<"**/*.js">>,
               rules |-> ("@typescript-eslint/no-var-requires" :> <<"off">>
                          @@ "@typescript-eslint/explicit-function-return-type" :> <<"off">>
                          @@ "@typescript-eslint/explicit-module-boundary-types" :> <<"off">>
                          @@ "@typescript-eslint/no-unused-vars" :> <<"off">>)] >>

(***************************************************************************)
(* The inputs of buildEslintConfig                                         *)
(***************************************************************************)
MaxCustomRules == 2

\* the custom rules a caller may pass: a preset rule, the two rules the
\* builder adds itself, a core rule, and a rule nothing else sets
EslintCustomRuleChoices ==
       "no-console" :> <<"warn", "{ allow: ['warn', 'error'] }">>
    @@ "max-len" :> <<"error", "{ code: 120 }">>
    @@ "i18next/no-literal-string" :> <<"off">>
    @@ "semi" :> <<"error", "'always'">>
    @@ "@typescript-eslint/no-explicit-any" :> <<"off">>
    @@ "unicorn/filename-case" :> <<"warn">>

\* o with key k set to v, or o itself when the caller leaves k out
With(o, present, k, v) == IF present THEN Spread(o, k :> v) ELSE o

EslintPresetChoices == {"", "strict", "standard", "relaxed", "minimal", "legacy"}

EslintOptions ==
    { With(With(With(With(With(With(EmptyObject,
        p # "", "preset", p),
        hasI, "enableI18next", i),
        hasP, "enablePerformanceRules", perf),
        hasL, "maxLineLength", 120),
        noExtra, "enableStorybook", FALSE),
        hasC, "customRules", [r \in C |-> EslintCustomRuleChoices[r]]) :
        p \in EslintPresetChoices,
        hasI \in BOOLEAN, i \in BOOLEAN, hasP \in BOOLEAN, perf \in BOOLEAN,
        hasL \in BOOLEAN, noExtra \in BOOLEAN, hasC \in BOOLEAN,
        C \in SubsetsUpTo(DOMAIN EslintCustomRuleChoices, MaxCustomRules) }

InitEslint ==
    /\ pc = "ready"
    /\ budgets = Unused
    /\ metrics = Unused
    /\ historicalData = <<>>
    /\ healthScore = NoScore
    /\ regressions = <<>>
    /\ options \in EslintOptions
    /\ config = Unused
    /\ semanticGroupsCache = {}
    /\ context = NoContext
    /\ canDeploy = FALSE
    /\ result = Unused
    /\ historyFile = NoFile
    /\ moduleTables = NoTables
    /\ returned = <<>>

BuildEslintConfig ==
    /\ pc = "ready"
    /\ pc' = "done"
    /\ config' = buildEslintConfig(options)
    /\ UNCHANGED <<budgets, metrics, historicalData, healthScore, regressions, options,
                   semanticGroupsCache>>
    /\ UNCHANGED ciVars
    /\ UNCHANGED callVars

NextEslint == BuildEslintConfig

SpecEslint == InitEslint /\ [][NextEslint]_vars

(***************************************************************************)
(* buildStylelintConfig                                                    *)
(*                                                                         *)
(* A rule value is <<literal>>, the text of its literal, or                *)
(* <<"number", n>> for the number n.                                       *)
(***************************************************************************)
baseRules ==
       "selector-class-pattern" :> <<"null">>
    @@ "declaration-empty-line-before" :> <<"null">>
    @@ "alpha-value-notation" :> <<"'number'">>
    @@ "color-function-notation" :> <<"'legacy'">>
    @@ "selector-pseudo-class-no-unknown" :> <<"[true, { ignorePseudoClasses: ['global', 'local', 'export', 'import', 'deep', 'local'] }]">>
    @@ "property-no-unknown" :> <<"[true, { ignoreProperties: ['composes', 'aspect-ratio'] }]">>
    @@ "at-rule-no-unknown" :> <<"null">>
    @@ "no-descending-specificity" :> <<"null">>
    @@ "font-family-no-missing-generic-family-keyword" :> <<"null">>
    @@ "no-duplicate-selectors" :> <<"true">>
    @@ "no-empty-source" :> <<"true">>
    @@ "no-invalid-double-slash-comments" :> <<"true">>

scssRules ==
       "scss/at-rule-no-unknown" :> <<"true">>
    @@ "scss/at-extend-no-missing-placeholder" :> <<"true">>
    @@ "scss/comment-no-empty" :> <<"true">>
    @@ "scss/declaration-nested-properties-no-divided-groups" :> <<"true">>
    @@ "scss/double-slash-comment-empty-line-before" :> <<"['always', { except: ['first-nested'], ignore: ['between-comments', 'stylelint-commands'] }]">>
    @@ "scss/operator-no-newline-after" :> <<"true">>
    @@ "scss/operator-no-unspaced" :> <<"true">>
    @@ "scss/no-global-function-names" :> <<"null">>
    @@ "scss/at-mixin-argumentless-call-parentheses" :> <<"'always'">>
    @@ "scss/at-mixin-no-risky-nesting-selectors" :> <<"true">>

\* the three SCSS rules used when enableModernScss is false
legacyScssRules ==
       "scss/at-rule-no-unknown" :> <<"true">>
    @@ "scss/at-extend-no-missing-placeholder" :> <<"true">>
    @@ "scss/comment-no-empty" :> <<"true">>

\* JSON.stringify of the semanticGroups objects a caller passes here
JSONstringify(g) ==
    IF DOMAIN g = {} THEN "{}"
    ELSE IF DOMAIN g = {"enableCache"} /\ g.enableCache THEN "{\"enableCache\":true}"
    ELSE "{\"enableCache\":false}"

\* createDynamicSemanticGroups: the cache after the call (the result,
\* propertyOrdering, is the same on a hit and on a miss)
createDynamicSemanticGroups(cache, semanticGroups) ==
    IF JSONstringify(semanticGroups) \in cache THEN cache
    ELSE cache \cup {JSONstringify(semanticGroups)}

\* the rules before customRules is merged in, over the module's rule table
\* as it is at the call
stylelintBuiltRulesOver(table, o) ==
    LET enableSemanticGroups == Default(o, "enableSemanticGroups", TRUE)
        enableScss           == Default(o, "enableScss", TRUE)
        maxNestingDepth      == Default(o, "maxNestingDepth", 4)
        colorFormat          == Default(o, "colorFormat", "hex")
        enableModernScss     == Default(o, "enableModernScss", TRUE)
        ordered == IF enableSemanticGroups
                   THEN Spread(table, "order/order" :> <<"selectorOrdering">>
                                      @@ "order/properties-order" :> <<"propertyOrdering">>)
                   ELSE table
        scss    == IF enableScss
                   THEN Spread(ordered, IF enableModernScss THEN scssRules ELSE legacyScssRules)
                   ELSE ordered
        nested  == IF maxNestingDepth # 0 /\ maxNestingDepth > 0
                   THEN Spread(scss, "max-nesting-depth" :> <<"number", maxNestingDepth>>)
                   ELSE scss
    IN  IF colorFormat # "null"
        THEN LET named == Spread(nested, "color-named" :> <<"'never'">>)
             IN  IF colorFormat = "hex"
                 THEN Spread(named, "color-hex-length" :> <<"'short'">>)
                 ELSE IF colorFormat = "rgb"
                 THEN Spread(named, "color-function-notation" :> <<"'modern'">>)
                 ELSE named
        ELSE nested

\* the rules before customRules is merged in, built from baseRules as the
\* module defines it
stylelintBuiltRules(o) == stylelintBuiltRulesOver(baseRules, o)

\* the rules with customRules merged first, under the builder's own rules
stylelintRulesCustomFirst(o) ==
    Spread(Default(o, "customRules", EmptyObject), stylelintBuiltRules(o))

\* Object.assign(rules, customRules) as the last step
stylelintRules(o) ==
    Spread(stylelintBuiltRules(o), Default(o, "customRules", EmptyObject))

buildStylelintConfig(o) ==
    LET enableSemanticGroups == Default(o, "enableSemanticGroups", TRUE)
        enableScss           == Default(o, "enableScss", TRUE)
        ignoreFiles          == Default(o, "ignoreFiles", <<>>)
        additionalPlugins    == Default(o, "additionalPlugins", <<>>)
        performance          == Default(o, "performance", EmptyObject)
    IN  [extends      |-> IF enableScss THEN "stylelint-config-standard-scss"
                          ELSE "stylelint-config-standard",
         plugins      |-> (IF enableSemanticGroups THEN <<"stylelint-order">> ELSE <<>>)
                          \o additionalPlugins,
         rules        |-> stylelintRules(o),
         ignoreFiles  |-> <<"**/node_modules/**", "**/dist/**", "**/build/**", "**/coverage/**",
                            "**/.fttemplates/**", "**/storybook-static/**", "**/*.min.css",
                            "**/*.bundle.css", "**/vendor/**/*.css">> \o ignoreFiles,
         defaultSeverity |-> "error",
         fix          |-> FALSE,
         reportNeedlessDisables |-> TRUE,
         reportInvalidScopeDisables |-> TRUE,
         performance  |-> [enableCaching      |-> Coalesce(Get(performance, "enableCaching"), "true"),
                           parallelProcessing |-> Coalesce(Get(performance, "parallelProcessing"), "false"),
                           maxConcurrency     |-> Coalesce(Get(performance, "maxConcurrency"), "4"),
                           cacheDirectory     |-> Get(performance, "cacheDirectory"),
                           cacheFile          |-> Get(performance, "cacheFile")]]

(***************************************************************************)
(* The inputs of buildStylelintConfig                                      *)
(***************************************************************************)
\* custom rules: a base rule the colour format also sets, an ordering rule,
\* an SCSS rule, the nesting rule, two colour rules, and a new rule
StylelintCustomRuleChoices ==
       "color-function-notation" :> <<"null">>
    @@ "order/properties-order" :> <<"null">>
    @@ "scss/at-rule-no-unknown" :> <<"null">>
    @@ "max-nesting-depth" :> <<"number", 2>>
    @@ "color-named" :> <<"'always-where-possible'">>
    @@ "color-hex-length" :> <<"'long'">>
    @@ "selector-max-id" :> <<"number", 0>>

SemanticGroupsChoices == {EmptyObject, [enableCache |-> TRUE]}

StylelintOptions ==
    { With(With(With(With(With(With(With(EmptyObject,
        hasG, "enableSemanticGroups", g),
        hasS, "enableScss", sc),
        ~modern, "enableModernScss", FALSE),
        depth # 4, "maxNestingDepth", depth),
        colour # "", "colorFormat", colour),
        sg # EmptyObject, "semanticGroups", sg),
        hasC, "customRules", [r \in C |-> StylelintCustomRuleChoices[r]]) :
        hasG \in BOOLEAN, g \in BOOLEAN, hasS \in BOOLEAN, sc \in BOOLEAN, modern \in BOOLEAN,
        depth \in {4, 0, 3}, colour \in {"", "hex", "rgb", "hsl", "null"},
        sg \in SemanticGroupsChoices, hasC \in BOOLEAN,
        C \in SubsetsUpTo(DOMAIN StylelintCustomRuleChoices, MaxCustomRules) }

InitStylelint ==
    /\ pc = "ready"
    /\ budgets = Unused
    /\ metrics = Unused
    /\ historicalData = <<>>
    /\ healthScore = NoScore
    /\ regressions = <<>>
    /\ options \in StylelintOptions
    /\ config = Unused
    /\ semanticGroupsCache \in {{}, {"{}"}}
    /\ context = NoContext
    /\ canDeploy = FALSE
    /\ result = Unused
    /\ historyFile = NoFile
    /\ moduleTables = NoTables
    /\ returned = <<>>

BuildStylelintConfig ==
    /\ pc = "ready"
    /\ pc' = "done"
    /\ config' = buildStylelintConfig(options)
    /\ semanticGroupsCache' =
          IF Default(options, "enableSemanticGroups", TRUE)
          THEN createDynamicSemanticGroups(semanticGroupsCache,
                                           Default(options, "semanticGroups", EmptyObject))
          ELSE semanticGroupsCache
    /\ UNCHANGED <<budgets, metrics, historicalData, healthScore, regressions, options>>
    /\ UNCHANGED ciVars
    /\ UNCHANGED callVars

NextStylelint == BuildStylelintConfig

SpecStylelint == InitStylelint /\ [][NextStylelint]_vars

(***************************************************************************)
(* buildWebpackConfig and the webpack reactPreset                          *)
(*                                                                         *)
(* A plugin instance is a record holding the plugin's name and the options *)
(* it was constructed with; a loader rule is a record of its fields.       *)
(***************************************************************************)
\* a boolean option read in a condition: absent (undefined) is falsy
Truthy(o, k) == Has(o, k) /\ o[k]

\* JSON.stringify of a boolean option or of undefined
JSONstringifyFlag(o, k) == IF ~Has(o, k) THEN Undefined ELSE IF o[k] THEN "true" ELSE "false"

buildDevServer(o) ==
    IF ~Truthy(o, "isDev") THEN EmptyObject
    ELSE [port               |-> IF Has(o, "port") /\ o.port # 0 THEN o.port ELSE 3000,
          open               |-> TRUE,
          hot                |-> TRUE,
          historyApiFallback |-> TRUE,
          client             |-> [overlay |-> [errors |-> TRUE, warnings |-> FALSE],
                                  progress |-> TRUE],
          compress           |-> TRUE,
          static             |-> [directory |-> o.paths.output, publicPath |-> "/"],
          devMiddleware      |-> [writeToDisk |-> FALSE, stats |-> "minimal"],
          webSocketServer    |-> "ws",
          liveReload         |-> TRUE,
          watchFiles         |-> [paths |-> <<"src/**/*">>,
                                  options |-> [usePolling |-> TRUE, interval |-> 1000]]]

buildHtmlPlugin(o) ==
    [plugin   |-> "HtmlWebpackPlugin",
     template |-> o.paths.html,
     favicon  |-> IF Has(o.paths, "public") THEN o.paths.public \o "/favicon.ico" ELSE Undefined,
     minify   |-> ~Truthy(o, "isDev")]

buildDefinePlugin(o) ==
    [plugin     |-> "DefinePlugin",
     IS_DEV     |-> JSONstringifyFlag(o, "isDev"),
     IS_PROD    |-> IF Truthy(o, "isDev") THEN "false" ELSE "true",
     MODE       |-> Get(o, "mode"),
     API_URL    |-> IF Has(o, "apiUrl") THEN o.apiUrl ELSE ""]

buildMiniCssExtractPlugin(o) ==
    [plugin        |-> "MiniCssExtractPlugin",
     filename      |-> IF Truthy(o, "isDev") THEN "[name].css" ELSE "css/[name].[contenthash:8].css",
     chunkFilename |-> IF Truthy(o, "isDev") THEN "[id].css" ELSE "css/[id].[contenthash:8].css"]

buildProgressPlugin(o) ==
    [plugin |-> "ProgressPlugin", profile |-> JSONstringifyFlag(o, "isDev")]

buildPlugins(o) ==
    << buildHtmlPlugin(o), buildDefinePlugin(o), buildMiniCssExtractPlugin(o),
       buildProgressPlugin(o) >>
    \o (IF Truthy(o, "isDev") THEN << [plugin |-> "ReactRefreshWebpackPlugin"] >> ELSE <<>>)
    \o (IF Truthy(o, "analyzer") THEN << [plugin |-> "BundleAnalyzerPlugin"] >> ELSE <<>>)

buildTsLoader(o) ==
    IF Truthy(o, "isDev")
    THEN [test |-> "/\\.tsx?$/", loader |-> "esbuild-loader", exclude |-> "/node_modules/",
          options |-> [loader |-> "tsx", target |-> "es2020"]]
    ELSE [test |-> "/\\.tsx?$/", use |-> "ts-loader", exclude |-> "/node_modules/"]

\* the six rules; only the TypeScript and the CSS rule read the options
buildLoaders(o) ==
    << [rule |-> "buildBabelLoader"],
       buildTsLoader(o),
       [rule |-> "buildCssLoader",
        styleLoader |-> IF Truthy(o, "isDev") THEN "style-loader" ELSE "MiniCssExtractPlugin.loader"],
       [rule |-> "buildSvgLoader"], [rule |-> "buildImageLoader"], [rule |-> "buildFontLoader"] >>

buildResolvers(o) ==
    [modules    |-> <<"node_modules", o.paths.src>>,
     extensions |-> <<".tsx", ".ts", ".js", ".jsx">>,
     alias      |-> [at |-> o.paths.src]]

\* the fields of the optimization section that depend on the options
buildOptimization(o) ==
    [minimize           |-> ~Truthy(o, "isDev"),
     usedExports        |-> ~Truthy(o, "isDev"),
     sideEffects        |-> ~Truthy(o, "isDev"),
     concatenateModules |-> ~Truthy(o, "isDev"),
     providedExports    |-> TRUE,
     realContentHash    |-> ~Truthy(o, "isDev"),
     moduleIds          |-> IF Truthy(o, "isDev") THEN "named" ELSE "deterministic",
     chunkIds           |-> IF Truthy(o, "isDev") THEN "named" ELSE "deterministic"]

buildWebpackConfig(o) ==
    [mode         |-> Get(o, "mode"),
     entry        |-> o.paths.entry,
     output       |-> [path |-> o.paths.output, filename |-> "[name].js", clean |-> TRUE],
     module       |-> [rules |-> buildLoaders(o)],
     resolve      |-> buildResolvers(o),
     plugins      |-> buildPlugins(o),
     devServer    |-> buildDevServer(o),
     optimization |-> buildOptimization(o)]

\* { ...options, mode: options.mode || 'development' }
webpackReactPreset(o) ==
    buildWebpackConfig(Spread(o, [mode |-> IF Has(o, "mode") THEN o.mode ELSE "development"]))

(***************************************************************************)
(* The inputs of the webpack builders                                      *)
(***************************************************************************)
\* the four required paths
RequiredPaths ==
    [entry |-> "./src/index.tsx", output |-> "./dist", html |-> "./public/index.html",
     src |-> "./src"]

WebpackOptions ==
    { With(With(With(With(With([paths |-> RequiredPaths],
        mode # "", "mode", mode),
        hasDev, "isDev", dev),
        hasAnalyzer, "analyzer", analyzer),
        hasPort, "port", port),
        hasApi, "apiUrl", "https://api.example.com") :
        mode \in {"", "development", "production"},
        hasDev \in BOOLEAN, dev \in BOOLEAN, hasAnalyzer \in BOOLEAN, analyzer \in BOOLEAN,
        hasPort \in BOOLEAN, port \in {0, 8080}, hasApi \in BOOLEAN }

InitWebpack ==
    /\ pc = "ready"
    /\ budgets = Unused
    /\ metrics = Unused
    /\ historicalData = <<>>
    /\ healthScore = NoScore
    /\ regressions = <<>>
    /\ options \in WebpackOptions
    /\ config = Unused
    /\ semanticGroupsCache = {}
    /\ context = NoContext
    /\ canDeploy = FALSE
    /\ result = Unused
    /\ historyFile = NoFile
    /\ moduleTables = NoTables
    /\ returned = <<>>

BuildWebpackConfig ==
    /\ pc = "ready"
    /\ pc' = "done"
    /\ config' = [builder |-> "buildWebpackConfig", result |-> buildWebpackConfig(options)]
    /\ UNCHANGED <<budgets, metrics, historicalData, healthScore, regressions, options,
                   semanticGroupsCache>>
    /\ UNCHANGED ciVars
    /\ UNCHANGED callVars

ReactPreset ==
    /\ pc = "ready"
    /\ pc' = "done"
    /\ config' = [builder |-> "reactPreset", result |-> webpackReactPreset(options)]
    /\ UNCHANGED <<budgets, metrics, historicalData, healthScore, regressions, options,
                   semanticGroupsCache>>
    /\ UNCHANGED ciVars
    /\ UNCHANGED callVars

NextWebpack == BuildWebpackConfig \/ ReactPreset

SpecWebpack == InitWebpack /\ [][NextWebpack]_vars

(***************************************************************************)
(* CIPerformanceMonitoring                                                 *)
(*                                                                         *)
(* runCIPerformanceMonitoring is an async method: it runs to its first     *)
(* await with the score, the regressions, canDeploy and the report         *)
(* computed (pc = "reported"), then pushes the build onto the history and  *)
(* starts writing the history file (pc = "saving"), then resolves          *)
(* (pc = "done").  Calls are made one after the other.                     *)
(***************************************************************************)
HistoryLimit == 100

\* the defaults of the constructor
ciDefaultConfig ==
    [enabled              |-> TRUE,
     budgets              |-> [bundleSize |-> 1024 * 1024, gzippedSize |-> 300 * 1024,
                               buildTime |-> 30000, memoryUsage |-> 1024, moduleCount |-> 1000,
                               assetCount |-> 100, performanceScore |-> 80],
     regressionThresholds |-> [maxRegressionPercent |-> 15, failOnRegression |-> TRUE,
                               blockOnCritical |-> TRUE],
     trendAnalysis        |-> [lookbackBuilds |-> 10, minConfidence |-> "0.7"],
     reporting            |-> [detailedReports |-> TRUE, trendCharts |-> TRUE,
                               enableComparison |-> TRUE]]

\* this.config = { ...defaults, ...config }
ciConfig(c) == Spread(ciDefaultConfig, c)

\* CIPerformanceMonitoring.detectRegressions with the current build already
\* on the history it is compared against
ciDetectRegressionsSelfIncluded(m, h) == detectRegressions(m, Append(h, [metrics |-> m]))

\* CIPerformanceMonitoring.detectRegressions: this.historicalData is passed on
ciDetectRegressions(m, h) == detectRegressions(m, h)

\* shouldAllowDeployment without the health score check
shouldAllowDeploymentNoScoreCheck(cfg, regs, hs) ==
    LET criticalRegressions == SelectSeq(regs, LAMBDA r : r.severity = "critical")
        blockingRegressions == SelectSeq(regs, LAMBDA r : r.isBlocking)
    IN  IF Len(criticalRegressions) > 0 /\ cfg.regressionThresholds.blockOnCritical THEN FALSE
        ELSE IF Len(blockingRegressions) > 0 /\ cfg.regressionThresholds.failOnRegression
        THEN FALSE
        ELSE TRUE

\* shouldAllowDeployment without the check for critical regressions
shouldAllowDeploymentNoCriticalCheck(cfg, regs, hs) ==
    hs.overallScore >= 60

shouldAllowDeployment(cfg, regs, hs) ==
    LET criticalRegressions == SelectSeq(regs, LAMBDA r : r.severity = "critical")
        blockingRegressions == SelectSeq(regs, LAMBDA r : r.isBlocking)
    IN  IF Len(criticalRegressions) > 0 /\ cfg.regressionThresholds.blockOnCritical THEN FALSE
        ELSE IF hs.overallScore < 60 THEN FALSE
        ELSE IF Len(blockingRegressions) > 0 /\ cfg.regressionThresholds.failOnRegression
        THEN FALSE
        ELSE TRUE

\* the lines "  - <text>" pushed for each element of a list
Bullets(lines) == [i \in DOMAIN lines |-> "  - " \o lines[i]]

generateDeploymentRecommendations(regs, hs, deploy) ==
    IF ~deploy
    THEN <<"Deployment blocked due to performance issues">>
         \o (IF Len(regs) > 0
             THEN <<"Address performance regressions before deployment:">>
                  \o Bullets([i \in DOMAIN regs |-> regs[i].type \o " regression"])
             ELSE <<>>)
         \o (IF hs.overallScore < 60
             THEN <<"Build health score is too low for deployment">>
             ELSE <<>>)
    ELSE <<"Deployment allowed">>
         \o (IF hs.grade # "A"
             THEN <<"Consider performance improvements:">> \o Bullets(hs.recommendations)
             ELSE <<>>)

\* the entry updateHistoricalData builds (its timestamp left out)
historicalEntry(m, hs, ctx) ==
    [buildId     |-> ctx.buildId,
     commit      |-> [hash |-> ctx.commit, message |-> "", author |-> ctx.author,
                      branch |-> ctx.branch],
     metrics     |-> m,
     healthScore |-> hs,
     trends      |-> [direction |-> "stable", changePercentage |-> 0, confidence |-> "0.5"]]

\* updateHistoricalData keeping the first HistoryLimit entries
updateHistoricalDataKeepOldest(h, entry) ==
    LET pushed == Append(h, entry)
    IN  IF Len(pushed) > HistoryLimit THEN SubSeq(pushed, 1, HistoryLimit) ELSE pushed

\* updateHistoricalData: push, then slice(-100) when longer than 100
updateHistoricalData(h, entry) ==
    LET pushed == Append(h, entry)
    IN  IF Len(pushed) > HistoryLimit
        THEN SubSeq(pushed, Len(pushed) - HistoryLimit + 1, Len(pushed))
        ELSE pushed

(***************************************************************************)
(* The inputs of CIPerformanceMonitoring                                   *)
(***************************************************************************)
MaxRuns == 2

\* the config argument of the constructor: nothing, or the thresholds
CIConfigInputs ==
    {EmptyObject} \cup
    { [regressionThresholds |-> [maxRegressionPercent |-> 15, failOnRegression |-> f,
                                 blockOnCritical |-> b]] : f \in BOOLEAN, b \in BOOLEAN }

\* the CIContext of build n
CIContextOf(n) ==
    [buildId |-> n, branch |-> "main", commit |-> "c0ffee", author |-> "dev",
     isPullRequest |-> FALSE]

\* a build like the ones in the history file
SteadyMetrics ==
    [totalBuildTime |-> 10000, moduleCount |-> 900, performanceHints |-> <<>>,
     bundleAnalysis |-> [totalSize |-> 400000], peakMemoryUsage |-> 400]

\* the builds a call is made with: the steady build, builds 20%, 25% and 40%
\* slower, and a build without bundle analysis over the time, module and
\* memory budgets
CIMetrics ==
    { SteadyMetrics,
      [SteadyMetrics EXCEPT !.totalBuildTime = 12000],
      [SteadyMetrics EXCEPT !.totalBuildTime = 12500],
      [SteadyMetrics EXCEPT !.totalBuildTime = 14000],
      [totalBuildTime |-> 70000, moduleCount |-> 5000,
       performanceHints |-> Repeat("error", 5), peakMemoryUsage |-> 2000] }

\* the lengths of the history loadHistoricalData finds in the file
LoadedLengths == {0, 2, HistoryLimit - 1, HistoryLimit, HistoryLimit + 3}

\* a loaded history of n steady builds, numbered 1 - n .. 0
LoadedHistory(n) ==
    [i \in 1..n |->
        historicalEntry(SteadyMetrics,
                        calculateHealthScore(constructor(ciDefaultConfig.budgets), SteadyMetrics),
                        CIContextOf(i - n))]

\* JSON.stringify(this.historicalData): the file holding the array (the
\* entries are made of numbers, strings, booleans, arrays and objects)
JSONstringifyHistory(h) == [kind |-> "array", data |-> h]

\* the history file at construction: missing, not JSON, JSON of an object,
\* or JSON of an array of entries
HistoryFiles ==
    {NoFile, [kind |-> "unparsable"], [kind |-> "object"]}
    \cup { JSONstringifyHistory(LoadedHistory(n)) : n \in LoadedLengths }

\* loadHistoricalData: whether it threw, and this.historicalData after it
loadHistoricalData(file) ==
    IF file.kind = "missing" THEN [threw |-> FALSE, historicalData |-> <<>>]
    ELSE IF file.kind = "unparsable" THEN [threw |-> FALSE, historicalData |-> <<>>]
    ELSE IF file.kind = "array" THEN [threw |-> FALSE, historicalData |-> file.data]
    ELSE [threw |-> FALSE, historicalData |-> <<>>]

\* saveHistoricalData without its try/catch
saveHistoricalDataUncaught(file, h, written) ==
    [threw |-> ~written,
     file  |-> IF written THEN JSONstringifyHistory(h) ELSE file]

\* saveHistoricalData: whether it threw, and the file after it; written is
\* whether fs.promises.writeFile succeeded
saveHistoricalData(file, h, written) ==
    [threw |-> FALSE,
     file  |-> IF written THEN JSONstringifyHistory(h) ELSE file]

InitCI ==
    /\ historyFile \in HistoryFiles
    /\ moduleTables = NoTables
    /\ returned = <<>>
    /\ pc = IF loadHistoricalData(historyFile).threw THEN "threw" ELSE "ready"
    /\ options \in CIConfigInputs
    /\ config = ciConfig(options)
    /\ budgets = constructor(config.budgets)
    /\ metrics = Unused
    /\ historicalData = loadHistoricalData(historyFile).historicalData
    /\ healthScore = NoScore
    /\ regressions = <<>>
    /\ semanticGroupsCache = {}
    /\ context = NoContext
    /\ canDeploy = FALSE
    /\ result = Unused

\* runCIPerformanceMonitoring up to its first await
RunCIPerformanceMonitoring ==
    /\ pc \in {"ready", "done"}
    /\ context.buildId < MaxRuns
    /\ \E m \in CIMetrics :
          /\ metrics' = m
          /\ healthScore' = calculateHealthScore(budgets, m)
          /\ regressions' = ciDetectRegressions(m, historicalData)
          /\ canDeploy' = shouldAllowDeployment(config, ciDetectRegressions(m, historicalData),
                                                calculateHealthScore(budgets, m))
    /\ context' = CIContextOf(context.buildId + 1)
    /\ result' = Unused
    /\ pc' = "reported"
    /\ UNCHANGED <<budgets, historicalData, options, config, semanticGroupsCache, historyFile>>
    /\ UNCHANGED callVars

\* the recommendations are generated and updateHistoricalData runs up to the
\* await of the file write
UpdateHistoricalData ==
    /\ pc = "reported"
    /\ historicalData' = updateHistoricalData(historicalData,
                                              historicalEntry(metrics, healthScore, context))
    /\ pc' = "saving"
    /\ UNCHANGED <<budgets, metrics, healthScore, regressions, options, config,
                   semanticGroupsCache, context, canDeploy, result, historyFile>>
    /\ UNCHANGED callVars

\* the file write of saveHistoricalData ends, well or not; unless it threw,
\* the results are logged and the promise resolves
ReturnCIResult ==
    /\ pc = "saving"
    /\ \E written \in BOOLEAN :
          LET saved == saveHistoricalData(historyFile, historicalData, written)
          IN  /\ historyFile' = saved.file
              /\ pc' = IF saved.threw THEN "rejected" ELSE "done"
              /\ result' =
                    IF saved.threw THEN result
                    ELSE [healthScore     |-> healthScore,
                          regressions     |-> regressions,
                          canDeploy       |-> canDeploy,
                          reportPath      |-> <<"ci-performance-reports/ci-performance-", context.buildId, ".json">>,
                          recommendations |-> generateDeploymentRecommendations(
                                                  regressions, healthScore, canDeploy)]
    /\ UNCHANGED <<budgets, metrics, historicalData, healthScore, regressions, options, config,
                   semanticGroupsCache, context, canDeploy>>
    /\ UNCHANGED callVars

NextCI == RunCIPerformanceMonitoring \/ UpdateHistoricalData \/ ReturnCIResult

SpecCI == InitCI /\ [][NextCI]_vars

(***************************************************************************)
(* The other score-to-grade conversions                                    *)
(***************************************************************************)
\* BundleAnalyzer.getGradeAndStatus
getGradeAndStatus(score) ==
    IF score >= 90 THEN [grade |-> "A", status |-> "excellent"]
    ELSE IF score >= 80 THEN [grade |-> "B", status |-> "good"]
    ELSE IF score >= 70 THEN [grade |-> "C", status |-> "fair"]
    ELSE IF score >= 60 THEN [grade |-> "D", status |-> "poor"]
    ELSE IF score >= 50 THEN [grade |-> "E", status |-> "poor"]
    ELSE [grade |-> "F", status |-> "critical"]

\* reports.filter((r) => r.healthScore)
validReports(reports) == SelectSeq(reports, LAMBDA r : Has(r, "healthScore"))

\* the reduce: the sum of healthScore.overallScore || 0
RECURSIVE SumOverallScores(_)
SumOverallScores(reports) ==
    IF reports = <<>> THEN 0
    ELSE Head(reports).healthScore.overallScore + SumOverallScores(Tail(reports))

\* ComprehensivePerformanceReporting.calculateAverageHealthScore
calculateAverageHealthScore(reports) ==
    IF Len(validReports(reports)) = 0 THEN EmptyObject
    ELSE LET avgScore == MathRound(SumOverallScores(validReports(reports)),
                                   Len(validReports(reports)))
         IN  [overallScore |-> avgScore,
              grade        |-> IF avgScore >= 90 THEN "A"
                               ELSE IF avgScore >= 80 THEN "B"
                               ELSE IF avgScore >= 70 THEN "C"
                               ELSE IF avgScore >= 60 THEN "D"
                               ELSE "F"]

(***************************************************************************)
(* The inputs of calculateAverageHealthScore                               *)
(***************************************************************************)
MaxReports == 2

ReportScores == {0, 45, 49, 50, 55, 59, 60, 69, 70, 80, 90, 100}

\* a report with a health score, or one without
Reports ==
    { [timestamp |-> "t", healthScore |-> [overallScore |-> sc]] : sc \in ReportScores }
    \cup { [timestamp |-> "t"] }

ReportLists == UNION { [1..n -> Reports] : n \in 0..MaxReports }

InitGrades ==
    /\ pc = "ready"
    /\ budgets = Unused
    /\ metrics = Unused
    /\ historicalData = <<>>
    /\ healthScore = NoScore
    /\ regressions = <<>>
    /\ options \in ReportLists
    /\ config = Unused
    /\ semanticGroupsCache = {}
    /\ context = NoContext
    /\ canDeploy = FALSE
    /\ result = Unused
    /\ historyFile = NoFile
    /\ moduleTables = NoTables
    /\ returned = <<>>

CalculateAverageHealthScore ==
    /\ pc = "ready"
    /\ pc' = "done"
    /\ config' = calculateAverageHealthScore(options)
    /\ UNCHANGED <<budgets, metrics, historicalData, healthScore, regressions, options,
                   semanticGroupsCache>>
    /\ UNCHANGED ciVars
    /\ UNCHANGED callVars

NextGrades == CalculateAverageHealthScore

SpecGrades == InitGrades /\ [][NextGrades]_vars

(***************************************************************************)
(* buildBiomeConfig                                                        *)
(***************************************************************************)
biomeFormatterSettings ==
    [indentStyle |-> "space", indentSize |-> 2, lineWidth |-> 140, lineEnding |-> "lf"]

\* the reactPreset object of the Biome presets, which a caller passes as options
biomeReactPreset ==
    [enableReact      |-> TRUE,
     enableTypeScript |-> TRUE,
     enableFormatting |-> TRUE,
     enableLinting    |-> TRUE,
     ignorePatterns   |-> <<>>,
     tsconfigPath     |-> "./tsconfig.json",
     customRules      |->
           "react/function-component-definition" :>
               <<"error", "{ namedComponents: [...], unnamedComponents: [...] }">>
        @@ "jsx-quotes" :> <<"error", "'prefer-single'">>
        @@ "react/jsx-filename-extension" :> <<"error", "{ extensions: ['.tsx', '.jsx', '.js'] }">>
        @@ "react/jsx-props-no-spreading" :> <<"warn">>
        @@ "react/jsx-no-useless-fragment" :> <<"error", "{ allowExpressions: true }">>]

\* a fresh object literal on every call; customRules is spread into a new
\* rules object
buildBiomeConfig(o) ==
    LET enableReact      == Default(o, "enableReact", TRUE)
        enableTypeScript == Default(o, "enableTypeScript", TRUE)
        customRules      == Default(o, "customRules", EmptyObject)
        ignorePatterns   == Default(o, "ignorePatterns", <<>>)
        enableFormatting == Default(o, "enableFormatting", TRUE)
        enableLinting    == Default(o, "enableLinting", TRUE)
        linterRules == Spread(Spread("recommended" :> <<"true">>,
                                     IF enableReact THEN "react" :> <<"true">> ELSE EmptyObject),
                              IF enableTypeScript THEN "typescript" :> <<"true">> ELSE EmptyObject)
        linter == IF enableLinting THEN [enabled |-> TRUE, rules |-> linterRules]
                  ELSE [enabled |-> FALSE]
    IN  [schema     |-> "https://biomejs.dev/schemas/1.7.3/schema.json",
         files      |-> [ignore |-> <<"**/node_modules/**", "**/dist/**", "**/build/**",
                                      "**/coverage/**", "**/.fttemplates/**",
                                      "**/storybook-static/**", "**/*.min.js">>
                                    \o ignorePatterns],
         formatter  |-> IF enableFormatting
                        THEN Spread([enabled |-> TRUE], biomeFormatterSettings)
                        ELSE [enabled |-> FALSE],
         linter     |-> IF DOMAIN customRules # {}
                        THEN Spread(linter,
                                    [rules |-> Spread(Default(linter, "rules", EmptyObject),
                                                      customRules)])
                        ELSE linter,
         organizer  |-> [enabled |-> TRUE],
         javascript |-> [formatter |-> biomeFormatterSettings],
         typescript |-> [formatter |-> biomeFormatterSettings]]

(***************************************************************************)
(* Sequences of config builder calls                                       *)
(*                                                                         *)
(* The modules are loaded once and the builders are then called one after  *)
(* the other.  moduleTables holds the rule tables coreRules (ESLint) and    *)
(* baseRules (Stylelint) as they are between two calls, and                 *)
(* semanticGroupsCache the Stylelint cache; the Jest and Vitest presets are *)
(* functions that return a new object per call, and buildBiomeConfig reads  *)
(* no module-level object.                                                  *)
(***************************************************************************)
\* the rule tables when the modules have been loaded
LoadedTables == [coreRules |-> coreRules, baseRules |-> baseRules]

\* a mergeRulesWithPreset that returns baseRules itself when no preset is
\* merged, and a new object only when one is
mergeRulesWithPresetCopiesForPresetOnly(preset) == ~(preset = "" \/ preset = "standard")

\* whether the object mergeRulesWithPreset returns is a new one: it is an
\* object literal on both branches ({ ...baseRules } and
\* { ...baseRules, ...presetRules })
mergeRulesWithPresetReturnsCopy(preset) ==
    IF preset = "" \/ preset = "standard" THEN TRUE ELSE TRUE

\* coreRules after a buildEslintConfig call: the Object.assign calls write to
\* the object mergeRulesWithPreset returned
coreRulesAfter(table, o) ==
    IF mergeRulesWithPresetReturnsCopy(Default(o, "preset", "standard"))
    THEN table
    ELSE eslintRulesOver(table, o)

\* baseRules after a buildStylelintConfig call: `rules` is { ...baseRules },
\* and every assignment and Object.assign writes to that copy
baseRulesAfter(table, o) == table

\* buildEslintConfig over the rule table as it is at the call
buildEslintConfigOver(table, o) ==
    [buildEslintConfig(o) EXCEPT ![2].rules = eslintRulesOver(table, o)]

\* buildStylelintConfig over the rule table as it is at the call; the value
\* createDynamicSemanticGroups returns is dropped, and
\* rules['order/properties-order'] is set from the module's propertyOrdering
buildStylelintConfigOver(table, o) ==
    [buildStylelintConfig(o) EXCEPT
        !.rules = Spread(stylelintBuiltRulesOver(table, o),
                         Default(o, "customRules", EmptyObject))]

MaxCalls == 3

CallEslintOptions ==
    { EmptyObject,
      [preset |-> "strict"],
      [customRules |-> [r \in {"@typescript-eslint/no-explicit-any", "unicorn/filename-case"}
                          |-> EslintCustomRuleChoices[r]]] }

CallStylelintOptions ==
    { EmptyObject,
      [semanticGroups |-> [enableCache |-> TRUE]],
      [customRules |-> [r \in {"color-named", "selector-max-id"}
                          |-> StylelintCustomRuleChoices[r]]] }

CallBiomeOptions ==
    { EmptyObject,
      biomeReactPreset,
      [enableLinting |-> FALSE, customRules |-> ("noConsole" :> <<"error">>)] }

CallJestOptions == { EmptyObject, WithPreset([testTimeout |-> UserValue], "react") }

CallVitestOptions ==
    { EmptyObject, WithTest(WithPreset(EmptyObject, "react"), TRUE, [globals |-> UserValue]) }

InitBuilders ==
    /\ pc = "ready"
    /\ budgets = Unused
    /\ metrics = Unused
    /\ historicalData = <<>>
    /\ healthScore = NoScore
    /\ regressions = <<>>
    /\ options = Unused
    /\ config = Unused
    /\ semanticGroupsCache = {}
    /\ context = NoContext
    /\ canDeploy = FALSE
    /\ result = Unused
    /\ historyFile = NoFile
    /\ moduleTables = LoadedTables
    /\ returned = <<>>

\* the bookkeeping every call shares: the argument, the returned value, and
\* the state no builder touches
Return(builder, o, cfg) ==
    /\ Len(returned) < MaxCalls
    /\ pc' = "done"
    /\ options' = o
    /\ config' = cfg
    /\ returned' = Append(returned, [builder |-> builder, options |-> o, config |-> cfg])
    /\ UNCHANGED <<budgets, metrics, historicalData, healthScore, regressions>>
    /\ UNCHANGED ciVars

CallBuildEslintConfig ==
    \E o \in CallEslintOptions :
        /\ Return("buildEslintConfig", o, buildEslintConfigOver(moduleTables.coreRules, o))
        /\ moduleTables' = [moduleTables EXCEPT !.coreRules = coreRulesAfter(@, o)]
        /\ UNCHANGED semanticGroupsCache

CallBuildStylelintConfig ==
    \E o \in CallStylelintOptions :
        /\ Return("buildStylelintConfig", o, buildStylelintConfigOver(moduleTables.baseRules, o))
        /\ moduleTables' = [moduleTables EXCEPT !.baseRules = baseRulesAfter(@, o)]
        /\ semanticGroupsCache' =
              IF Default(o, "enableSemanticGroups", TRUE)
              THEN createDynamicSemanticGroups(semanticGroupsCache,
                                               Default(o, "semanticGroups", EmptyObject))
              ELSE semanticGroupsCache

CallBuildBiomeConfig ==
    \E o \in CallBiomeOptions :
        /\ Return("buildBiomeConfig", o, buildBiomeConfig(o))
        /\ UNCHANGED <<moduleTables, semanticGroupsCache>>

CallBuildJestConfig ==
    \E o \in CallJestOptions :
        /\ Return("buildJestConfig", o, buildJestConfig(o))
        /\ UNCHANGED <<moduleTables, semanticGroupsCache>>

CallBuildVitestConfig ==
    \E o \in CallVitestOptions :
        /\ Return("buildVitestConfig", o, buildVitestConfig(o))
        /\ UNCHANGED <<moduleTables, semanticGroupsCache>>

NextBuilders ==
    \/ CallBuildEslintConfig
    \/ CallBuildStylelintConfig
    \/ CallBuildBiomeConfig
    \/ CallBuildJestConfig
    \/ CallBuildVitestConfig

SpecBuilders == InitBuilders /\ [][NextBuilders]_vars

(***************************************************************************)
(* Health score: properties                                                *)
(***************************************************************************)
Scored == pc = "done" /\ healthScore # NoScore

SubScoreSum(h) ==
    25 * h.buildTimeScore + 25 * h.bundleSizeScore + 20 * h.performanceScore
        + 15 * h.cacheScore + 15 * h.memoryScore

\* C1: the overallScore returned by calculateHealthScore is the weighted sum
\* 0.25*buildTime + 0.25*bundleSize + 0.20*performance + 0.15*cache + 0.15*memory
\* of the sub-scores of the same result, rounded to the nearest integer
\* (halves upwards), and the five weights sum to 1.
C1_OverallIsRoundedWeightedSum ==
    /\ 25 + 25 + 20 + 15 + 15 = 100
    /\ Scored =>
          /\ 100 * healthScore.overallScore - 50 <= SubScoreSum(healthScore)
          /\ SubScoreSum(healthScore) < 100 * healthScore.overallScore + 50

\* a result whose weighted sum lies exactly half-way between two integers
C1_Witness ==
    /\ Scored
    /\ SubScoreSum(healthScore) % 100 = 50

\* C2: the overallScore and each of the five sub-scores returned by
\* calculateHealthScore lie between 0 and 100 inclusive, for every metrics
\* input and every budget configuration.
C2_ScoresInRange ==
    Scored =>
        \A f \in {"overallScore", "buildTimeScore", "bundleSizeScore",
                   "performanceScore", "cacheScore", "memoryScore"} :
            healthScore[f] \in 0..100

\* a result whose performance deductions exceed 100 points
C2_Witness ==
    /\ Scored
    /\ HintDeduction(metrics.performanceHints) > 100
    /\ healthScore.performanceScore = 0

GradeRank(g) ==
    CASE g = "A" -> 5 [] g = "B" -> 4 [] g = "C" -> 3 [] g = "D" -> 2 [] g = "E" -> 1 [] g = "F" -> 0

\* C5: the grade is a function of overallScore alone: A for >= 90, B for
\* 80-89, C for 70-79, D for 60-69, E for 50-59, F below 50; every score
\* receives exactly one grade and a higher score never a worse one.
C5_GradeBuckets ==
    /\ Scored =>
          LET s == healthScore.overallScore
              g == healthScore.grade
          IN  /\ g \in {"A", "B", "C", "D", "E", "F"}
              /\ (g = "A") <=> (s >= 90)
              /\ (g = "B") <=> (s \in 80..89)
              /\ (g = "C") <=> (s \in 70..79)
              /\ (g = "D") <=> (s \in 60..69)
              /\ (g = "E") <=> (s \in 50..59)
              /\ (g = "F") <=> (s < 50)
    /\ \A s \in 0..99 :
          GradeRank(generateGradeAndStatus(s).grade) <= GradeRank(generateGradeAndStatus(s + 1).grade)

\* a result graded E
C5_Witness == Scored /\ healthScore.grade = "E" /\ healthScore.overallScore \in 50..59

(***************************************************************************)
(* Regressions: properties                                                 *)
(***************************************************************************)
Detected == pc = "done" /\ historicalData # <<>>

TrackedTypes == {"build-time", "bundle-size", "memory"}

Threshold(type) ==
    CASE type = "build-time" -> 15 [] type = "bundle-size" -> 10 [] type = "memory" -> 20

Reported(type) == \E i \in 1..Len(regressions) : regressions[i].type = type

\* the builds the baseline of the claim is taken over: the last 10, or all
ClaimWindow ==
    LET n == Min(10, Len(historicalData))
    IN  [i \in 1..n |-> historicalData[Len(historicalData) - n + i]]

\* the sum of a tracked metric over the window, a build without it counting 0
ClaimSum(type) ==
    SumOver(ClaimWindow, CASE type = "build-time" -> "totalBuildTime"
                           [] type = "bundle-size" -> "bundleSize"
                           [] type = "memory" -> "memory")

HasCurrent(type) ==
    CASE type = "build-time" -> TRUE
      [] type = "bundle-size" -> Has(metrics, "bundleAnalysis")
      [] type = "memory" -> Has(metrics, "peakMemoryUsage")

Current(type) ==
    CASE type = "build-time" -> metrics.totalBuildTime
      [] type = "bundle-size" -> metrics.bundleAnalysis.totalSize
      [] type = "memory" -> metrics.peakMemoryUsage

\* the current value is more than Threshold(type) percent above the mean
\* ClaimSum / Len(ClaimWindow), a percentage that exists for a mean above 0
ExceedsBaseline(type) ==
    /\ HasCurrent(type)
    /\ ClaimSum(type) > 0
    /\ 100 * (Current(type) * Len(ClaimWindow) - ClaimSum(type)) > Threshold(type) * ClaimSum(type)

\* C3: detectRegressions reports a regression for a tracked metric if and
\* only if the current value exceeds the baseline, the mean of the metric
\* over the most recent 10 historical builds (all of them if fewer), by
\* strictly more than 15% (build-time), 10% (bundle-size) or 20% (memory).
C3_ReportedIffAboveThreshold ==
    pc = "done" => \A type \in TrackedTypes : Reported(type) <=> ExceedsBaseline(type)

\* C4: a reported regression with percentage change p against threshold t
\* is minor for t < p <= 1.5t, major for 1.5t < p <= 2t, critical for
\* p > 2t, and isBlocking exactly when it is critical.
C4_SeverityLadder ==
    pc = "done" =>
        \A i \in 1..Len(regressions) :
            LET r == regressions[i]
                t == Threshold(r.type)
                p == r.percentageChange
            IN  /\ PercentGT(p, t, 1)
                /\ (r.severity = "minor") <=> ~PercentGT(p, 3 * t, 2)
                /\ (r.severity = "major") <=> (PercentGT(p, 3 * t, 2) /\ ~PercentGT(p, 2 * t, 1))
                /\ (r.severity = "critical") <=> PercentGT(p, 2 * t, 1)
                /\ r.isBlocking <=> (r.severity = "critical")

\* one call that reports a minor regression exactly at 1.5t, a major one
\* and a critical one
C4_Witness ==
    /\ Detected
    /\ \E i \in 1..Len(regressions) :
          /\ regressions[i].severity = "minor"
          /\ 2 * regressions[i].percentageChange.num
                = 3 * Threshold(regressions[i].type) * regressions[i].percentageChange.den
    /\ \E i \in 1..Len(regressions) : regressions[i].severity = "major"
    /\ \E i \in 1..Len(regressions) : regressions[i].severity = "critical"

(***************************************************************************)
(* Config builders: properties                                             *)
(***************************************************************************)
Built == pc = "done"

\* the preset the claims select: the named one, base when absent or unknown
SelectedJestPreset ==
    IF Get(options, "preset") = "react" THEN jestReactPreset
    ELSE IF Get(options, "preset") = "typescript" THEN jestTypescriptPreset
    ELSE jestBasePreset

SelectedVitestPreset ==
    IF Get(options, "preset") = "react" THEN vitestReactPreset
    ELSE IF Get(options, "preset") = "typescript" THEN vitestTypescriptPreset
    ELSE vitestBasePreset

\* C7: every field of the test object buildVitestConfig returns holds the
\* caller's options.test value if supplied, otherwise the selected preset's
\* value, otherwise the global default, also when the caller supplies only
\* some of the test fields.
C7_VitestTestPrecedence ==
    Built =>
        /\ Has(config, "test")
        /\ \A f \in VitestTestFields :
              IF Has(TestOf(options), f)
              THEN Has(config.test, f) /\ config.test[f] = options.test[f]
              ELSE IF Has(SelectedVitestPreset.test, f)
                   THEN Has(config.test, f) /\ config.test[f] = SelectedVitestPreset.test[f]
              ELSE IF Has(vitestGlobalDefaults, f)
                   THEN Has(config.test, f) /\ config.test[f] = vitestGlobalDefaults[f]
              ELSE ~Has(config.test, f)

\* the rules of the main block, the second element of the ESLint array
MainRules == config[2].rules

CustomRules == Default(options, "customRules", EmptyObject)

\* C8: for every rule named in options.customRules, the rules of the main
\* block buildEslintConfig returns map it to the customRules value, for
\* every combination of the other options.
C8_EslintCustomRulesWin ==
    Built => \A r \in DOMAIN CustomRules : Has(MainRules, r) /\ MainRules[r] = CustomRules[r]

\* the preset the caller selected, standard when none is given
SelectedEslintPreset == Default(options, "preset", "standard")

\* C9: for every accepted preset (strict, standard, relaxed, minimal;
\* standard when none is given) every rule the preset names appears in the
\* main block with the preset's value, unless customRules names the rule.
C9_EslintPresetRulesApplied ==
    (Built /\ SelectedEslintPreset \in DOMAIN rulePresets) =>
        \A r \in DOMAIN rulePresets[SelectedEslintPreset] :
            r \notin DOMAIN CustomRules =>
                Has(MainRules, r) /\ MainRules[r] = rulePresets[SelectedEslintPreset][r]

\* C10: every rule named in options.customRules has exactly the customRules
\* value in the rules buildStylelintConfig returns, whatever the base,
\* ordering, SCSS, nesting-depth and colour-format rules are.
C10_StylelintCustomRulesWin ==
    Built => \A r \in DOMAIN CustomRules :
                Has(config.rules, r) /\ config.rules[r] = CustomRules[r]

\* custom values for the nesting rule and for a colour rule the builder
\* also sets in the same call
C10_Witness ==
    /\ Built
    /\ Has(CustomRules, "max-nesting-depth") /\ Default(options, "maxNestingDepth", 4) = 4
    /\ Has(CustomRules, "color-function-notation") /\ Get(options, "colorFormat") = "rgb"
    /\ config.rules["max-nesting-depth"] = <<"number", 2>>
    /\ config.rules["color-function-notation"] = <<"null">>

\* C11: when the caller supplies no testTimeout, the configuration
\* buildJestConfig returns has testTimeout = 5000, whichever preset (base,
\* react, typescript or none) is selected.
C11_DefaultTestTimeout ==
    (Built /\ ~Has(options, "testTimeout")) =>
        Has(config, "testTimeout") /\ config.testTimeout = "5000"

\* C12: the object returned by buildJestConfig and the object returned by
\* buildVitestConfig never contain a 'preset' key, whatever preset value
\* the caller passed.
C12_NoPresetKey == Built => ~Has(config, "preset")

\* the plugin names of a returned webpack configuration
PluginNames(c) == { c.plugins[i].plugin : i \in DOMAIN c.plugins }

\* C13: the webpack reactPreset called with mode 'development' and the four
\* required paths, and no other option, returns a configuration whose
\* devServer section has hot = true and whose plugin list contains the
\* React Refresh plugin.
C13_ReactPresetEnablesHMR ==
    (Built /\ config.builder = "reactPreset"
           /\ options = [mode |-> "development", paths |-> RequiredPaths]) =>
        /\ Has(config.result.devServer, "hot") /\ config.result.devServer.hot
        /\ "ReactRefreshWebpackPlugin" \in PluginNames(config.result)

\* the file name templates of webpack outputs, and whether each contains a
\* content-hash placeholder
ContainsContentHash ==
       "[name].js" :> FALSE
    @@ "[name].chunk.js" :> FALSE
    @@ "[name].[contenthash:8].js" :> TRUE
    @@ "[name].[contenthash:8].chunk.js" :> TRUE

\* the template under key k of the output section contains a content hash
Hashed(c, k) == Has(c.output, k) /\ ContainsContentHash[c.output[k]]

\* C14: buildWebpackConfig derives hashed output paths from the mode: with
\* mode 'production' output.filename and output.chunkFilename contain a
\* content hash, with mode 'development' they contain none.
C14_HashedOutputInProduction ==
    (Built /\ config.builder = "buildWebpackConfig") =>
        /\ Get(options, "mode") = "production" =>
              Hashed(config.result, "filename") /\ Hashed(config.result, "chunkFilename")
        /\ Get(options, "mode") = "development" =>
              ~Hashed(config.result, "filename") /\ ~Hashed(config.result, "chunkFilename")

\* a runCIPerformanceMonitoring call has resolved
Returned == pc = "done" /\ context.buildId > 0

Thresholds == config.regressionThresholds

HasSeverity(sev) == \E i \in DOMAIN regressions : regressions[i].severity = sev

\* C15: runCIPerformanceMonitoring returns canDeploy = false whenever the
\* computed overallScore is below 60, for every regression list and every
\* setting of failOnRegression and blockOnCritical.
C15_LowScoreBlocksDeployment ==
    Returned => (result.healthScore.overallScore < 60 => ~result.canDeploy)

\* a build scoring under 60 with no regression and both switches off
C15_Witness ==
    /\ Returned
    /\ result.healthScore.overallScore < 60
    /\ result.regressions = <<>>
    /\ ~Thresholds.failOnRegression /\ ~Thresholds.blockOnCritical
    /\ ~result.canDeploy

\* C16: with blockOnCritical = true, runCIPerformanceMonitoring returns
\* canDeploy = false whenever at least one detected regression is critical,
\* whatever the health score is.
C16_CriticalRegressionBlocks ==
    (Returned /\ Thresholds.blockOnCritical /\ HasSeverity("critical")) => ~result.canDeploy

\* a critical regression on a build with a passing score, failOnRegression off
C16_Witness ==
    /\ Returned
    /\ Thresholds.blockOnCritical /\ ~Thresholds.failOnRegression
    /\ HasSeverity("critical")
    /\ result.healthScore.overallScore >= 60
    /\ ~result.canDeploy

\* C17: with failOnRegression = true, runCIPerformanceMonitoring returns
\* canDeploy = false whenever at least one regression is detected, whatever
\* its severity (minor, major or critical).
C17_AnyRegressionFails ==
    (Returned /\ Thresholds.failOnRegression /\ Len(result.regressions) > 0) => ~result.canDeploy

\* C18: after every completed call the history holds at most 100 entries,
\* its last entry is the build just processed, and the entries are the most
\* recent builds in their original order (consecutive build numbers).
C18_HistoryBounded ==
    Returned =>
        /\ Len(historicalData) <= HistoryLimit
        /\ Len(historicalData) >= 1
        /\ historicalData[Len(historicalData)].buildId = context.buildId
        /\ historicalData[Len(historicalData)].metrics = metrics
        /\ \A i \in 1..(Len(historicalData) - 1) :
              historicalData[i + 1].buildId = historicalData[i].buildId + 1

\* a full history from which the call dropped the oldest builds
C18_Witness ==
    /\ Returned
    /\ Len(historicalData) = HistoryLimit
    /\ historicalData[1].buildId = context.buildId - HistoryLimit + 1
    /\ context.buildId = MaxRuns

\* the entries of the history that record the build of the current call
OwnEntries == { i \in DOMAIN historicalData : historicalData[i].buildId = context.buildId }

\* the history without its last entry
Earlier(h) == SubSeq(h, 1, Len(h) - 1)

\* C19: within one call the regression check and the deployment decision
\* use only earlier builds: while the score, regressions and canDeploy are
\* computed the current build is not on the history, it is appended exactly
\* once afterwards, and the regressions are those against the history
\* without it.
C19_BuildNotInOwnBaseline ==
    /\ pc = "reported" =>
          /\ OwnEntries = {}
          /\ regressions = detectRegressions(metrics, historicalData)
    /\ pc \in {"saving", "done"} /\ context.buildId > 0 =>
          /\ OwnEntries = {Len(historicalData)}
          /\ regressions = detectRegressions(metrics, Earlier(historicalData))
          /\ canDeploy = shouldAllowDeployment(config, regressions, healthScore)

\* a returned call whose regressions would differ had the build been part
\* of its own baseline
C19_Witness ==
    /\ Returned
    /\ regressions # <<>>
    /\ detectRegressions(metrics, historicalData) # regressions

\* C20: every conversion of a 0-100 health score into a letter grade
\* (generateGradeAndStatus, getGradeAndStatus, calculateAverageHealthScore)
\* assigns the same grade to the same score.
C20_SameGradeEverywhere ==
    /\ \A sc \in 0..100 : getGradeAndStatus(sc).grade = generateGradeAndStatus(sc).grade
    /\ (Built /\ Has(config, "grade")) =>
          config.grade = generateGradeAndStatus(config.overallScore).grade

\* the history file does not hold the in-memory history: the last write failed
WriteFailed == historyFile # JSONstringifyHistory(historicalData)

=============================================================================
